---- MODULE Spec2Model ----
(***************************************************************************)
(* Model of the change-feed iterators of go-couchdb (feeds.go):            *)
(* DBUpdatesFeed and ChangesFeed (poll and continuous framing) reading a   *)
(* response body through an encoding/json Decoder.                         *)
(*                                                                         *)
(* The response body is a sequence of JSON tokens.  A value that the code  *)
(* hands to Decoder.Decode as one struct (a row of the feed) is one item   *)
(* of the sequence; the trailing keys of a poll response, which the code   *)
(* reads with Decoder.Token, are spelled out token by token.  Commas,      *)
(* colons and whitespace carry no information and are left out.            *)
(*                                                                         *)
(* The last part models package couchdaemon: the goroutines that talk to   *)
(* CouchDB over stdin and stdout, and the goroutines that call its API.    *)
(***************************************************************************)
EXTENDS Integers, Sequences, FiniteSets, TLC

VARIABLES
    mode,        \* which feed was opened: "poll", "continuous" (ChangesFeed), "dbupdates"
    opts,        \* the Options the caller opens the feed with
    req,         \* the request the opening call issued, "" when it issued none
    reply,       \* the answer to the request: the transport's failure or the status code
    shape,       \* the response body the server sends, by construction (fixed once sent)
    dec,         \* the json.Decoder: the part of the body not consumed yet
    cf,          \* the ChangesFeed struct
    uf,          \* the DBUpdatesFeed struct
    conn,        \* the io.Closer: how many times its Close has been invoked
    last,        \* the caller's last call and what it returned
    delivered,   \* the events the caller saw, one per Next() == true
    closeCalls,  \* how many times the caller called Close itself
    \* Package couchdaemon.
    impl,        \* the source that runs: "chan" (couchdaemon.go), "mutex" (part_007), "none"
    exitfn,      \* the exit function start was given, "nil" before start
    initArg,     \* how the package was started: Init(nil) "nil", Init(ch) "chan",
                 \* start(in, out, f) "func"; "none" before
    callers,     \* the goroutines that call the API: position, operation, result
    mutex,       \* the goroutine that holds the mutex, "" when it is free
    writer,      \* the goroutine writeloop: position and the request it took
    reader,      \* the goroutine readloop / inputloop: position and the line it read
    respchan,    \* the buffer of the channel respchan
    stdin,       \* the pipe from CouchDB: the lines not read yet, and whether it is closed
    stdout,      \* the pipe to CouchDB: the queries written, and how many CouchDB has read
    proc         \* the process: calls of the exit function and what they did

feedVars == <<mode, opts, req, reply, shape, dec, cf, uf, conn, last, delivered, closeCalls>>
daemonVars ==
    <<impl, exitfn, initArg, callers, mutex, writer, reader, respchan, stdin, stdout, proc>>
vars ==
    <<mode, opts, req, reply, shape, dec, cf, uf, conn, last, delivered, closeCalls,
      impl, exitfn, initArg, callers, mutex, writer, reader, respchan, stdin, stdout, proc>>

(***************************************************************************)
(* Bounds                                                                  *)
(***************************************************************************)
MaxRows == 2          \* rows in one response body
MaxKeys == 2          \* trailing keys of a poll response
MaxCloseCalls == 2    \* explicit Close calls of the caller
MaxDepth == 2         \* nesting of a JSON value handed to skipValue

(***************************************************************************)
(* Errors.  NoErr is Go's nil error.                                       *)
(***************************************************************************)
NoErr == "nil"
EOF == "io.EOF"
ErrUnexpectedEOF == "io.ErrUnexpectedEOF"
SyntaxError == "json.SyntaxError"
UnmarshalTypeError == "json.UnmarshalTypeError"
ErrUnexpectedToken == "unexpected token"
ErrLastSeq == "can't decode last_seq feed key"
ErrPending == "can't decode pending feed key"
ErrSkip == "can't skip over feed key"
ErrClosed == "already closed"

(***************************************************************************)
(* JSON on the wire.  Every token is [t, s, n]: t the kind, s the text of  *)
(* a string or delimiter, n the number (a "float" token n is the literal   *)
(* n.5, a "bool" token is 1 for true).                                     *)
(***************************************************************************)
Delim(c) == [t |-> "delim", s |-> c, n |-> 0]
StrTok(s) == [t |-> "str", s |-> s, n |-> 0]
IntTok(n) == [t |-> "int", s |-> "", n |-> n]
FloatTok(n) == [t |-> "float", s |-> "", n |-> n]
BoolTok(b) == [t |-> "bool", s |-> "", n |-> IF b THEN 1 ELSE 0]
NullTok == [t |-> "null", s |-> "", n |-> 0]
Absent == [t |-> "absent", s |-> "", n |-> 0]      \* a key that is not there
Bad == [t |-> "bad", s |-> "", n |-> 0]            \* bytes that are not JSON
Partial == [t |-> "partial", s |-> "", n |-> 0]    \* a value cut off by the end of input

IsScalar(tok) == tok.t \in {"str", "int", "float", "bool", "null"}
IsOpen(tok) == tok.t = "delim" /\ tok.s \in {"{", "["}
IsClose(tok) == tok.t = "delim" /\ tok.s \in {"}", "]"}

(***************************************************************************)
(* Go values of type interface{} as encoding/json produces them.           *)
(***************************************************************************)
Nil == [k |-> "nil", s |-> "", n |-> 0, half |-> FALSE]
GoString(s) == [k |-> "string", s |-> s, n |-> 0, half |-> FALSE]
GoFloat64(n, half) == [k |-> "float64", s |-> "", n |-> n, half |-> half]
GoBool(n) == [k |-> "bool", s |-> "", n |-> n, half |-> FALSE]
GoSlice == [k |-> "[]interface{}", s |-> "", n |-> 0, half |-> FALSE]
GoMap == [k |-> "map[string]interface{}", s |-> "", n |-> 0, half |-> FALSE]

\* json.Unmarshal of one value into an interface{}: every JSON number
\* becomes a float64, a string a string, null the nil interface.
decodeInterface(tok) ==
    CASE tok.t = "str" -> GoString(tok.s)
      [] tok.t = "int" -> GoFloat64(tok.n, FALSE)
      [] tok.t = "float" -> GoFloat64(tok.n, TRUE)
      [] tok.t = "bool" -> GoBool(tok.n)
      [] tok.t = "null" -> Nil
      [] tok.t = "array" -> GoSlice
      [] tok.t = "object" -> GoMap
      [] OTHER -> Nil

(***************************************************************************)
(* json.Decoder on the unread input d.                                     *)
(***************************************************************************)
\* Decoder.More: there is a next byte and it is not ']' or '}'.
More(d) == d # <<>> /\ ~IsClose(Head(d))

\* Decoder.Token: the next delimiter or scalar.  The code reads tokens in
\* the header and the trailer of a poll response only; a row item has no
\* tokens to step through, so a row met there is reported as malformed.
Token(d) ==
    IF d = <<>> THEN [tok |-> Absent, err |-> EOF, dec |-> d]
    ELSE IF Head(d).t = "bad" THEN [tok |-> Absent, err |-> SyntaxError, dec |-> d]
    ELSE IF Head(d).t = "partial" THEN [tok |-> Absent, err |-> ErrUnexpectedEOF, dec |-> d]
    ELSE IF Head(d).t \in {"row", "upd"} THEN [tok |-> Delim("{"), err |-> SyntaxError, dec |-> d]
    ELSE [tok |-> Head(d), err |-> NoErr, dec |-> Tail(d)]

\* The scan of Decoder.readValue over a value that opens with a delimiter:
\* the index of the token that closes it, 0 when the input ends first,
\* -1 when bytes that are not JSON come first.
RECURSIVE valueEnd(_, _, _)
valueEnd(d, i, depth) ==
    IF i > Len(d) \/ d[i].t = "partial" THEN 0
    ELSE IF d[i].t = "bad" THEN -1
    ELSE IF IsClose(d[i]) /\ depth = 1 THEN i
    ELSE valueEnd(d, i + 1,
                  IF IsOpen(d[i]) THEN depth + 1 ELSE IF IsClose(d[i]) THEN depth - 1 ELSE depth)

Drop(d, k) == SubSeq(d, k + 1, Len(d))

\* What Decoder.Decode makes of the input before it unmarshals: the value
\* read (kind "scalar" or "composite", with the input after it) or the error.
readValue(d) ==
    IF d = <<>> THEN [kind |-> "none", err |-> EOF, dec |-> d]
    ELSE IF Head(d).t = "partial" THEN [kind |-> "none", err |-> ErrUnexpectedEOF, dec |-> d]
    ELSE IF IsScalar(Head(d)) THEN [kind |-> "scalar", err |-> NoErr, dec |-> Tail(d)]
    ELSE IF Head(d).t \in {"row", "upd"} THEN [kind |-> "object", err |-> NoErr, dec |-> Tail(d)]
    ELSE IF IsOpen(Head(d))
         THEN LET k(e) ==
                  IF e = 0 THEN [kind |-> "none", err |-> ErrUnexpectedEOF, dec |-> d]
                  ELSE IF e = -1 THEN [kind |-> "none", err |-> SyntaxError, dec |-> d]
                  ELSE [kind |-> "composite", err |-> NoErr, dec |-> Drop(d, e)]
              IN k(valueEnd(d, 1, 0))
    ELSE [kind |-> "none", err |-> SyntaxError, dec |-> d]

\* Decoder.Decode(&v) with v an interface{} (ChangesFeed.Seq).
Decode_interface(d) ==
    LET k(rv) ==
        IF rv.err # NoErr THEN [val |-> Nil, set |-> FALSE, err |-> rv.err, dec |-> rv.dec]
        ELSE IF rv.kind = "scalar"
             THEN [val |-> decodeInterface(Head(d)), set |-> TRUE, err |-> NoErr, dec |-> rv.dec]
        ELSE [val |-> IF Head(d).t = "delim" /\ Head(d).s = "[" THEN GoSlice ELSE GoMap,
              set |-> TRUE, err |-> NoErr, dec |-> rv.dec]
    IN k(readValue(d))

\* Decoder.Decode(&v) with v an int64 (ChangesFeed.Pending): only an integer
\* literal fits; null leaves v alone; anything else is a type error.
Decode_int64(d) ==
    LET k(rv) ==
        IF rv.err # NoErr THEN [val |-> 0, set |-> FALSE, err |-> rv.err, dec |-> rv.dec]
        ELSE IF Head(d).t = "int"
             THEN [val |-> Head(d).n, set |-> TRUE, err |-> NoErr, dec |-> rv.dec]
        ELSE IF Head(d).t = "null"
             THEN [val |-> 0, set |-> FALSE, err |-> NoErr, dec |-> rv.dec]
        ELSE [val |-> 0, set |-> FALSE, err |-> UnmarshalTypeError, dec |-> rv.dec]
    IN k(readValue(d))

(***************************************************************************)
(* Rows.  A row on the wire is one item [t |-> "row", ...]; a key that the *)
(* row does not carry is "absent" (deleted, last_seq), Absent (seq), ""    *)
(* (id, doc) or <<>> (changes).  changes lists the rev of each {"rev": ..} *)
(* object of the array.                                                    *)
(***************************************************************************)
WireRow(id, deleted, seq, changes, doc, lastSeq) ==
    [t |-> "row", id |-> id, deleted |-> deleted, seq |-> seq,
     changes |-> changes, doc |-> doc, last_seq |-> lastSeq]

WireUpdate(dbName, type, seq, ok) ==
    [t |-> "upd", db_name |-> dbName, type |-> type, seq |-> seq, ok |-> ok]

\* A JSON boolean key decoded into a Go bool field that holds old.
unmarshalBool(old, key) ==
    IF key = "true" THEN TRUE ELSE IF key = "false" THEN FALSE ELSE old

\* The zero value of type changesRow (var row changesRow).
ZeroRow ==
    [ID |-> "", Deleted |-> FALSE, Seq |-> Nil, Changes |-> <<>>, Doc |-> "", LastSeq |-> FALSE]

\* json.Unmarshal of the changes array, on the wire a list of {"rev": ...}
\* objects, into Changes []struct{ Rev string }.
unmarshalChanges(revs) == [i \in 1..Len(revs) |-> [Rev |-> revs[i]]]

\* json.Unmarshal of a row object into a changesRow holding dst: a key that
\* is present overwrites its field, an absent key leaves the field alone.
Unmarshal_changesRow(dst, item) ==
    [ID |-> IF item.id = "" THEN dst.ID ELSE item.id,
     Deleted |-> unmarshalBool(dst.Deleted, item.deleted),
     Seq |-> IF item.seq = Absent THEN dst.Seq ELSE decodeInterface(item.seq),
     Changes |-> IF item.changes = <<>> THEN dst.Changes ELSE unmarshalChanges(item.changes),
     Doc |-> IF item.doc = "" THEN dst.Doc ELSE item.doc,
     LastSeq |-> unmarshalBool(dst.LastSeq, item.last_seq)]

\* var row changesRow; dec.Decode(&row).  Keys that changesRow does not
\* name are ignored: of a _db_updates row only seq is taken, of an object
\* spelled out in tokens nothing.
Decode_changesRow(d) ==
    LET k(rv) ==
        IF rv.err # NoErr THEN [row |-> ZeroRow, err |-> rv.err, dec |-> rv.dec]
        ELSE IF Head(d).t = "row"
             THEN [row |-> Unmarshal_changesRow(ZeroRow, Head(d)), err |-> NoErr, dec |-> rv.dec]
        ELSE IF Head(d).t = "upd"
             THEN [row |-> [ZeroRow EXCEPT !.Seq = decodeInterface(Head(d).seq)],
                   err |-> NoErr, dec |-> rv.dec]
        ELSE IF Head(d) = Delim("{") THEN [row |-> ZeroRow, err |-> NoErr, dec |-> rv.dec]
        ELSE [row |-> ZeroRow, err |-> UnmarshalTypeError, dec |-> rv.dec]
    IN k(readValue(d))

(***************************************************************************)
(* ChangesFeed                                                             *)
(***************************************************************************)
\* The struct as DB.Changes constructs it.
NewChangesFeed ==
    [ID |-> "", Deleted |-> FALSE, Seq |-> Nil, Pending |-> 0, Changes |-> <<>>, Doc |-> "",
     end |-> FALSE, err |-> NoErr]

\* apply with a slip: Deleted is only ever switched on.
apply_stickyDeleted(d, f) ==
    [f EXCEPT !.Seq = d.Seq, !.ID = d.ID, !.Deleted = @ \/ d.Deleted, !.Doc = d.Doc,
              !.Changes = d.Changes]

\* changesRow.apply
apply(d, f) ==
    [f EXCEPT !.Seq = d.Seq, !.ID = d.ID, !.Deleted = d.Deleted, !.Doc = d.Doc,
              !.Changes = d.Changes]

\* ChangesFeed.reset
reset(f) ==
    [f EXCEPT !.ID = "", !.Deleted = FALSE, !.Changes = <<>>, !.Doc = ""]

\* contParser with a slip: the terminal row does not end the feed.
contParser_noTerminal(f, d) ==
    LET k(r) ==
        IF r.err # NoErr THEN [f |-> f, err |-> r.err, dec |-> r.dec]
        ELSE [f |-> apply(r.row, f), err |-> NoErr, dec |-> r.dec]
    IN k(Decode_changesRow(d))

\* contParser with a slip: the terminal row ends the feed and is not applied.
contParser_dropTerminal(f, d) ==
    LET k(r) ==
        IF r.err # NoErr THEN [f |-> f, err |-> r.err, dec |-> r.dec]
        ELSE IF r.row.LastSeq THEN [f |-> [f EXCEPT !.end = TRUE], err |-> NoErr, dec |-> r.dec]
        ELSE [f |-> apply(r.row, f), err |-> NoErr, dec |-> r.dec]
    IN k(Decode_changesRow(d))

\* The closure contParser returns: one call decodes one row.
contParser(f, d) ==
    LET k(r) ==
        IF r.err # NoErr THEN [f |-> f, err |-> r.err, dec |-> r.dec]
        ELSE IF r.row.LastSeq
             THEN [f |-> [apply(r.row, f) EXCEPT !.end = TRUE], err |-> NoErr, dec |-> r.dec]
        ELSE [f |-> apply(r.row, f), err |-> NoErr, dec |-> r.dec]
    IN k(Decode_changesRow(d))

\* expectTokens: the tokens toks are next in the input, in this order.
RECURSIVE expectTokens(_, _)
expectTokens(d, toks) ==
    IF toks = <<>> THEN [err |-> NoErr, dec |-> d]
    ELSE LET k(tk) ==
             IF tk.err # NoErr THEN [err |-> tk.err, dec |-> tk.dec]
             ELSE IF tk.tok # Head(toks) THEN [err |-> ErrUnexpectedToken, dec |-> tk.dec]
             ELSE expectTokens(tk.dec, Tail(toks))
         IN k(Token(d))

\* nextDelim: the next token as a delimiter, "" (zero) when it is none.
nextDelim(d) ==
    LET k(tk) ==
        IF tk.err # NoErr THEN [delim |-> "", err |-> tk.err, dec |-> tk.dec]
        ELSE [delim |-> IF tk.tok.t = "delim" THEN tk.tok.s ELSE "",
              err |-> NoErr, dec |-> tk.dec]
    IN k(Token(d))

\* The loop of skipValue with a slip: an opening delimiter does not deepen the nesting.
RECURSIVE skipLoop_flat(_, _)
skipLoop_flat(d, nesting) ==
    IF nesting > 0
    THEN LET k(nd) ==
             IF nd.err # NoErr THEN [err |-> nd.err, dec |-> nd.dec]
             ELSE skipLoop_flat(nd.dec, IF nd.delim \in {"}", "]"} THEN nesting - 1 ELSE nesting)
         IN k(nextDelim(d))
    ELSE [err |-> NoErr, dec |-> d]

\* The loop of skipValue: for nesting > 0 { ... }
RECURSIVE skipLoop(_, _)
skipLoop(d, nesting) ==
    IF nesting > 0
    THEN LET k(nd) ==
             IF nd.err # NoErr THEN [err |-> nd.err, dec |-> nd.dec]
             ELSE skipLoop(nd.dec,
                           IF nd.delim \in {"{", "["} THEN nesting + 1
                           ELSE IF nd.delim \in {"}", "]"} THEN nesting - 1
                           ELSE nesting)
         IN k(nextDelim(d))
    ELSE [err |-> NoErr, dec |-> d]

\* skipValue with a slip: the first token is taken for the whole value.
skipValue_oneToken(d) ==
    LET k(first) == [err |-> first.err, dec |-> first.dec]
    IN k(nextDelim(d))

\* skipValue skips over the next JSON value in the decoder.
skipValue(d) ==
    LET k(first) ==
        IF first.err # NoErr \/ first.delim = "" THEN [err |-> first.err, dec |-> first.dec]
        ELSE skipLoop(first.dec, 1)
    IN k(nextDelim(d))

\* pollParser, the switch on one trailing key: its value is decoded or skipped.
trailingKey(f, key, d) ==
    IF key = StrTok("last_seq")
    THEN LET k(v) ==
             IF v.err # NoErr THEN [f |-> f, err |-> ErrLastSeq, dec |-> v.dec]
             ELSE [f |-> [f EXCEPT !.Seq = v.val], err |-> NoErr, dec |-> v.dec]
         IN k(Decode_interface(d))
    ELSE IF key = StrTok("pending")
    THEN LET k(v) ==
             IF v.err # NoErr THEN [f |-> f, err |-> ErrPending, dec |-> v.dec]
             ELSE [f |-> [f EXCEPT !.Pending = IF v.set THEN v.val ELSE @],
                   err |-> NoErr, dec |-> v.dec]
         IN k(Decode_int64(d))
    ELSE LET k(sk) ==
             IF sk.err # NoErr THEN [f |-> f, err |-> ErrSkip, dec |-> sk.dec]
             ELSE [f |-> f, err |-> NoErr, dec |-> sk.dec]
         IN k(skipValue(d))

\* One round of the loop over the trailing keys: the key, then its value.
trailingStep(f, d) ==
    LET k(key) ==
        IF key.err # NoErr THEN [f |-> f, err |-> key.err, dec |-> key.dec]
        ELSE trailingKey(f, key.tok, key.dec)
    IN k(Token(d))

\* pollParser, the loop over the trailing keys: for dec.More() { ... }
RECURSIVE trailingKeys(_, _)
trailingKeys(f, d) ==
    IF More(d)
    THEN LET k(st) == IF st.err # NoErr THEN st ELSE trailingKeys(st.f, st.dec)
         IN k(trailingStep(f, d))
    ELSE [f |-> f, err |-> NoErr, dec |-> d]

\* pollParser, the closure next, its first part: the next row of results.
pollRow(f, d) ==
    LET k(r) ==
        IF r.err # NoErr THEN [f |-> f, err |-> r.err, dec |-> r.dec]
        ELSE [f |-> apply(r.row, f), err |-> NoErr, dec |-> r.dec]
    IN k(Decode_changesRow(d))

\* The closure next with a slip: f.end is not set after the closing ']'.
pollNext_noEnd(f, d) ==
    IF More(d) THEN pollRow(reset(f), d)
    ELSE LET k(e) ==
             IF e.err # NoErr THEN [f |-> reset(f), err |-> e.err, dec |-> e.dec]
             ELSE trailingKeys(reset(f), e.dec)
         IN k(expectTokens(d, <<Delim("]")>>))

\* The closure next of pollParser: one call decodes one row, or, after the
\* last row, the closing ']' and the trailing keys.
pollNext(f, d) ==
    IF More(d) THEN pollRow(reset(f), d)
    ELSE LET k(e) ==
             IF e.err # NoErr THEN [f |-> reset(f), err |-> e.err, dec |-> e.dec]
             ELSE trailingKeys([reset(f) EXCEPT !.end = TRUE], e.dec)
         IN k(expectTokens(d, <<Delim("]")>>))

\* pollParser, the part that runs when DB.Changes opens the feed.
PollHeader == <<Delim("{"), StrTok("results"), Delim("[")>>
pollParser(d) == expectTokens(d, PollHeader)

\* f.parser(): the closure DB.Changes stored for the feed mode m.
parser(m, f, d) == IF m = "continuous" THEN contParser(f, d) ELSE pollNext(f, d)

\* ChangesFeed.Close: the feed is ended, conn.Close() is invoked.
ChangesFeed_Close(f, c) == [f |-> [f EXCEPT !.end = TRUE], conn |-> c + 1]

\* Next, after the parser ran with result p: if f.err != nil || f.end { f.Close() }
closeIfDone(p, c) ==
    IF p.err # NoErr \/ p.f.end
    THEN [f |-> ChangesFeed_Close([p.f EXCEPT !.err = p.err], c).f, dec |-> p.dec,
          conn |-> ChangesFeed_Close(p.f, c).conn, ret |-> FALSE]
    ELSE [f |-> [p.f EXCEPT !.err = p.err], dec |-> p.dec, conn |-> c, ret |-> ~p.f.end]

\* Next with a slip: the feed is closed when it ended, not when the parser failed.
ChangesFeed_Next_noCloseOnErr(m, f, d, c) ==
    IF f.end THEN [f |-> f, dec |-> d, conn |-> c, ret |-> FALSE]
    ELSE LET k(p) ==
             IF p.f.end THEN closeIfDone(p, c)
             ELSE [f |-> [p.f EXCEPT !.err = p.err], dec |-> p.dec, conn |-> c, ret |-> TRUE]
         IN k(parser(m, f, d))

\* Next with a slip: the feed is closed when the parser failed, not when it ended.
ChangesFeed_Next_noCloseOnEnd(m, f, d, c) ==
    IF f.end THEN [f |-> f, dec |-> d, conn |-> c, ret |-> FALSE]
    ELSE LET k(p) ==
             IF p.err # NoErr THEN closeIfDone(p, c)
             ELSE [f |-> [p.f EXCEPT !.err = p.err], dec |-> p.dec, conn |-> c,
                   ret |-> ~p.f.end]
         IN k(parser(m, f, d))

\* Next with a slip: no early return for a feed that has ended.
ChangesFeed_Next_noEndGuard(m, f, d, c) == closeIfDone(parser(m, f, d), c)

\* Next with a slip: a feed the parser marked as ended is closed and reported
\* as ended before the parser's error is looked at.
ChangesFeed_Next_endFirst(m, f, d, c) ==
    IF f.end THEN [f |-> f, dec |-> d, conn |-> c, ret |-> FALSE]
    ELSE LET k(p) ==
             IF p.f.end
             THEN [f |-> ChangesFeed_Close([p.f EXCEPT !.err = NoErr], c).f, dec |-> p.dec,
                   conn |-> ChangesFeed_Close(p.f, c).conn, ret |-> FALSE]
             ELSE closeIfDone(p, c)
         IN k(parser(m, f, d))

\* ChangesFeed.Next
ChangesFeed_Next(m, f, d, c) ==
    IF f.end THEN [f |-> f, dec |-> d, conn |-> c, ret |-> FALSE]
    ELSE closeIfDone(parser(m, f, d), c)

\* ChangesFeed.ChangesRevs
ChangesRevs(f) == [i \in 1..Len(f.Changes) |-> f.Changes[i].Rev]

\* ChangesFeed.Err
ChangesFeed_Err(f) == f.err

(***************************************************************************)
(* DBUpdatesFeed                                                           *)
(***************************************************************************)
NewDBUpdatesFeed ==
    [Event |-> "", DB |-> "", Seq |-> Nil, OK |-> FALSE, end |-> FALSE, err |-> NoErr]

\* json.Unmarshal of a row object into the DBUpdatesFeed struct itself.
Unmarshal_DBUpdatesFeed(f, item) ==
    [f EXCEPT !.Event = IF item.type = "" THEN @ ELSE item.type,
              !.DB = IF item.db_name = "" THEN @ ELSE item.db_name,
              !.Seq = IF item.seq = Absent THEN @ ELSE decodeInterface(item.seq),
              !.OK = unmarshalBool(@, item.ok)]

\* f.dec.Decode(f).  Keys that DBUpdatesFeed does not name are ignored: of a
\* _changes row only seq is taken, of an object spelled out in tokens nothing.
Decode_DBUpdatesFeed(f, d) ==
    LET k(rv) ==
        IF rv.err # NoErr THEN [f |-> f, err |-> rv.err, dec |-> rv.dec]
        ELSE IF Head(d).t = "upd"
             THEN [f |-> Unmarshal_DBUpdatesFeed(f, Head(d)), err |-> NoErr, dec |-> rv.dec]
        ELSE IF Head(d).t = "row"
             THEN [f |-> [f EXCEPT !.Seq = decodeInterface(Head(d).seq)],
                   err |-> NoErr, dec |-> rv.dec]
        ELSE IF Head(d) = Delim("{") THEN [f |-> f, err |-> NoErr, dec |-> rv.dec]
        ELSE [f |-> f, err |-> UnmarshalTypeError, dec |-> rv.dec]
    IN k(readValue(d))

\* DBUpdatesFeed.Close
DBUpdatesFeed_Close(f, c) == [f |-> [f EXCEPT !.end = TRUE], conn |-> c + 1]

\* Next with a slip: io.EOF is kept as the error of the feed.
DBUpdatesFeed_Next_keepEOF(f, d, c) ==
    IF f.end THEN [f |-> f, dec |-> d, conn |-> c, ret |-> FALSE]
    ELSE LET k(r) ==
             IF r.err # NoErr
             THEN [f |-> DBUpdatesFeed_Close([r.f EXCEPT !.err = r.err], c).f, dec |-> r.dec,
                   conn |-> DBUpdatesFeed_Close(r.f, c).conn, ret |-> FALSE]
             ELSE [f |-> [r.f EXCEPT !.err = NoErr], dec |-> r.dec, conn |-> c,
                   ret |-> ~r.f.end]
         IN k(Decode_DBUpdatesFeed(
                  [f EXCEPT !.Event = "", !.DB = "", !.Seq = Nil, !.OK = FALSE], d))

\* Next with a slip: no early return for a feed that has ended.
DBUpdatesFeed_Next_noEndGuard(f, d, c) ==
    LET k(r) ==
        IF r.err # NoErr
        THEN [f |-> DBUpdatesFeed_Close(
                        [r.f EXCEPT !.err = IF r.err = EOF THEN NoErr ELSE r.err], c).f,
              dec |-> r.dec, conn |-> DBUpdatesFeed_Close(r.f, c).conn, ret |-> FALSE]
        ELSE [f |-> [r.f EXCEPT !.err = NoErr], dec |-> r.dec, conn |-> c, ret |-> ~r.f.end]
    IN k(Decode_DBUpdatesFeed([f EXCEPT !.Event = "", !.DB = "", !.Seq = Nil, !.OK = FALSE], d))

\* Next with a slip: the event fields are not reset before decoding.
DBUpdatesFeed_Next_noReset(f, d, c) ==
    IF f.end THEN [f |-> f, dec |-> d, conn |-> c, ret |-> FALSE]
    ELSE LET k(r) ==
             IF r.err # NoErr
             THEN [f |-> DBUpdatesFeed_Close(
                             [r.f EXCEPT !.err = IF r.err = EOF THEN NoErr ELSE r.err], c).f,
                   dec |-> r.dec, conn |-> DBUpdatesFeed_Close(r.f, c).conn, ret |-> FALSE]
             ELSE [f |-> [r.f EXCEPT !.err = NoErr], dec |-> r.dec, conn |-> c,
                   ret |-> ~r.f.end]
         IN k(Decode_DBUpdatesFeed(f, d))

\* Next with a slip: a decoding error is recorded but the feed is not closed.
DBUpdatesFeed_Next_noCloseOnErr(f, d, c) ==
    IF f.end THEN [f |-> f, dec |-> d, conn |-> c, ret |-> FALSE]
    ELSE LET k(r) ==
             IF r.err = EOF
             THEN [f |-> DBUpdatesFeed_Close([r.f EXCEPT !.err = NoErr], c).f,
                   dec |-> r.dec, conn |-> DBUpdatesFeed_Close(r.f, c).conn, ret |-> FALSE]
             ELSE [f |-> [r.f EXCEPT !.err = r.err], dec |-> r.dec, conn |-> c,
                   ret |-> ~r.f.end]
         IN k(Decode_DBUpdatesFeed(
                  [f EXCEPT !.Event = "", !.DB = "", !.Seq = Nil, !.OK = FALSE], d))

\* DBUpdatesFeed.Next
DBUpdatesFeed_Next(f, d, c) ==
    IF f.end THEN [f |-> f, dec |-> d, conn |-> c, ret |-> FALSE]
    ELSE LET k(r) ==
             IF r.err # NoErr
             THEN [f |-> DBUpdatesFeed_Close(
                             [r.f EXCEPT !.err = IF r.err = EOF THEN NoErr ELSE r.err], c).f,
                   dec |-> r.dec, conn |-> DBUpdatesFeed_Close(r.f, c).conn, ret |-> FALSE]
             ELSE [f |-> [r.f EXCEPT !.err = NoErr], dec |-> r.dec, conn |-> c,
                   ret |-> ~r.f.end]
         IN k(Decode_DBUpdatesFeed(
                  [f EXCEPT !.Event = "", !.DB = "", !.Seq = Nil, !.OK = FALSE], d))

\* DBUpdatesFeed.Err
DBUpdatesFeed_Err(f) == f.err

(***************************************************************************)
(* conn io.Closer, the response body.  Its first Close succeeds; what a    *)
(* further Close returns is left undefined by io.Closer, so it is either   *)
(* nil or an error.                                                        *)
(***************************************************************************)
conn_Close(c) == IF c = 0 THEN {NoErr} ELSE {NoErr, ErrClosed}

(***************************************************************************)
(* The response bodies the feeds are run on.                               *)
(***************************************************************************)
RowA == WireRow("doc", "true", StrTok("1-a"), <<"1-r">>, "", "absent")
RowB == WireRow("doc", "absent", StrTok("2-b"), <<"2-r", "2-s">>, "", "absent")
RowC == WireRow("d2", "false", IntTok(3), <<>>, "{}", "absent")
ChangeRows == {RowA, RowB, RowC}

TermA == WireRow("", "absent", StrTok("99-z"), <<>>, "", "true")
TermB == WireRow("", "absent", Absent, <<>>, "", "true")
Terminals == {TermA, TermB}

UpdA == WireUpdate("db", "created", StrTok("1-u"), "absent")
UpdB == WireUpdate("db2", "deleted", Absent, "true")
UpdateRows == {UpdA, UpdB}

Entry(key, val) == [key |-> key, val |-> val]
Nested == <<Delim("{"), StrTok("x"), Delim("["), IntTok(1), StrTok("y"), Delim("]"), Delim("}")>>
WellTypedEntries ==
    {Entry("last_seq", <<StrTok("99-x")>>), Entry("pending", <<IntTok(1)>>),
     Entry("foobar", Nested), Entry("update_seq", <<IntTok(7)>>)}
IllTypedEntries == {Entry("pending", <<StrTok("x")>>)}
Entries == WellTypedEntries \cup IllTypedEntries

SeqsUpTo(S, n) == UNION {[1..k -> S] : k \in 0..n}

\* Lists of trailing keys: no key twice.
Trailers ==
    {tr \in SeqsUpTo(Entries, MaxKeys) :
        \A i, j \in 1..Len(tr) : i # j => tr[i].key # tr[j].key}

RECURSIVE Flatten(_)
Flatten(tr) ==
    IF tr = <<>> THEN <<>> ELSE <<StrTok(Head(tr).key)>> \o Head(tr).val \o Flatten(Tail(tr))

Faults == {"none", "bad", "partial"}
FaultItems(fault) ==
    IF fault = "bad" THEN <<Bad>> ELSE IF fault = "partial" THEN <<Partial>> ELSE <<>>

\* The complete, well-formed body of a shape.
FullBody(m, sh) ==
    IF m = "poll"
    THEN PollHeader \o sh.rows \o <<Delim("]")>> \o Flatten(sh.trailer) \o <<Delim("}")>>
    ELSE sh.rows \o sh.term

\* What the server sends: the first cut tokens of the complete body, then
\* the fault (if any), then the end of input.
Body(m, sh) == SubSeq(FullBody(m, sh), 1, sh.cut) \o FaultItems(sh.fault)

MkShape(rows, term, trailer, cut, fault) ==
    [rows |-> rows, term |-> term, trailer |-> trailer, cut |-> cut, fault |-> fault]

\* The bodies of a poll feed: the header and the rows, then either the end
\* of input or a fault, or the closing ']', the trailing keys and the closing
\* '}', cut anywhere after the ']'.
PollFaults == {"none", "bad"}
PollShape(sh) ==
    \E rows \in SeqsUpTo(ChangeRows, MaxRows), fault \in PollFaults :
        \/ sh = MkShape(rows, <<>>, <<>>, Len(PollHeader) + Len(rows), fault)
        \/ \E tr \in Trailers :
               \E cut \in (Len(PollHeader) + Len(rows) + 1)..
                          (Len(PollHeader) + Len(rows) + 2 + Len(Flatten(tr))) :
                   sh = MkShape(rows, <<>>, tr, cut, fault)

\* The bodies of a continuous feed: rows, then a terminal row, the end of
\* input or a fault.
ContShape(sh) ==
    \E rows \in SeqsUpTo(ChangeRows, MaxRows) :
        \/ \E fault \in Faults : sh = MkShape(rows, <<>>, <<>>, Len(rows), fault)
        \/ \E tm \in Terminals : sh = MkShape(rows, <<tm>>, <<>>, Len(rows) + 1, "none")

\* The bodies of a _db_updates feed: rows, then the end of input or a fault.
UpdShape(sh) ==
    \E rows \in SeqsUpTo(UpdateRows, MaxRows), fault \in Faults :
        sh = MkShape(rows, <<>>, <<>>, Len(rows), fault)

(***************************************************************************)
(* Opening a feed: the request path, the request, the parser.             *)
(***************************************************************************)
ErrNilValue == "invalid option: value is nil"
ErrUnsupportedType == "invalid option: unsupported type"
ErrTransport == "http.Client.Do error"
ErrCouch == "couchdb.Error"
ErrDecodeCouch == "couldn't decode CouchDB error"
ErrUnsupportedFeed == "couchdb: unsupported value for option feed"

\* Options is a map[string]interface{}: a function from the keys it holds to
\* Go values.  NoOptions is the nil map as well as the empty one.
NoOptions == [key \in {} |-> Nil]

\* Options.clone
clone(o) == [key \in DOMAIN o |-> o[key]]
\* o[key] = v
setOption(o, key, v) ==
    [key2 \in DOMAIN o \cup {key} |-> IF key2 = key THEN v ELSE o[key2]]
\* o[key] read: the nil interface for a key that is not in the map.
getOption(o, key) == IF key \in DOMAIN o THEN o[key] ELSE Nil

\* The option keys in use, in the ascending order of sort.Strings.
KeyOrder == <<"feed", "include_docs", "since">>
\* sort.Strings with a slip: the keys stay in the order of the map range.
sortStrings_none(keys) == keys
\* sort.Strings(keys)
sortStrings(keys) == SelectSeq(KeyOrder, LAMBDA key : \E i \in 1..Len(keys) : keys[i] = key)

\* url.QueryEscape, on the strings in use: a space becomes '+'.
QueryEscape(str) == IF str = "a b" THEN "a+b" ELSE str

\* encval: the text of an option value.
encval(v) ==
    CASE v.k = "nil" -> [str |-> "", err |-> ErrNilValue]
      [] v.k = "string" -> [str |-> QueryEscape(v.s), err |-> NoErr]
      [] v.k = "bool" -> [str |-> IF v.n = 1 THEN "true" ELSE "false", err |-> NoErr]
      [] v.k = "float64" ->
             [str |-> IF v.half THEN ToString(v.n) \o ".5" ELSE ToString(v.n), err |-> NoErr]
      [] OTHER -> [str |-> "", err |-> ErrUnsupportedType]

\* What follows one key=value of the query: the rest, unless that failed.
joinQuery(first, rest) ==
    IF rest.err # NoErr THEN rest ELSE [str |-> first \o rest.str, err |-> NoErr]

\* pathBuilder.options, the loop over the sorted keys (jskeys is nil for the
\* feeds, so every value goes through encval).
RECURSIVE encodeKeys(_, _, _)
encodeKeys(o, keys, amp) ==
    IF keys = <<>> THEN [str |-> "", err |-> NoErr]
    ELSE IF encval(o[Head(keys)]).err # NoErr
         THEN [str |-> "", err |-> encval(o[Head(keys)]).err]
    ELSE joinQuery((IF amp THEN "&" ELSE "") \o QueryEscape(Head(keys)) \o "="
                       \o encval(o[Head(keys)]).str,
                   encodeKeys(o, Tail(keys), TRUE))

\* pathBuilder.options: range over the map in the order the runtime picks,
\* sort the keys, write '?' and the key=value pairs joined by '&'.
options(o, order) ==
    LET k(q) == IF q.err # NoErr THEN [path |-> "", err |-> q.err]
                ELSE [path |-> "?" \o q.str, err |-> NoErr]
    IN k(encodeKeys(o, sortStrings(order), FALSE))

\* optpath(o, nil, segs...): the path of the segments, then the options.
optpath(o, order, segs) ==
    LET k(q) == IF q.err # NoErr THEN q ELSE [path |-> segs \o q.path, err |-> NoErr]
    IN k(options(o, order))

\* parseError: the body of an error response is decoded to a couchdb.Error.
parseError(body) ==
    LET k(rv) ==
        IF rv.err = NoErr /\ (rv.kind = "object" \/ Head(body) \in {Delim("{"), NullTok})
        THEN ErrCouch ELSE ErrDecodeCouch
    IN k(readValue(body))

\* The answer to a request: the transport fails (ok false), or a response
\* with a status code arrives.
Reply(ok, status) == [ok |-> ok, status |-> status]

\* transport.request with a slip: the status code is not looked at.
request_anyStatus(rep, body) ==
    IF ~rep.ok THEN [ok |-> FALSE, err |-> ErrTransport, dec |-> <<>>, conn |-> 0]
    ELSE [ok |-> TRUE, err |-> NoErr, dec |-> body, conn |-> 0]

\* transport.request: when newRequest or http.Client.Do fails (rep.ok false)
\* there is no response; a status code >= 400 is an error, and parseError
\* has read and closed the body.
request(rep, body) ==
    IF ~rep.ok THEN [ok |-> FALSE, err |-> ErrTransport, dec |-> <<>>, conn |-> 0]
    ELSE IF rep.status >= 400
         THEN [ok |-> FALSE, err |-> parseError(body), dec |-> <<>>, conn |-> 1]
    ELSE [ok |-> TRUE, err |-> NoErr, dec |-> body, conn |-> 0]

\* No request was issued, so there is no answer.
NoReply == Reply(FALSE, 0)

\* What an opening call returns (a feed or nil, an error) and leaves behind.
Opened(m, rq, rp, d) ==
    [feed |-> TRUE, err |-> NoErr, mode |-> m, req |-> rq, reply |-> rp, dec |-> d, conn |-> 0]
NotOpened(err, rq, rp, c) ==
    [feed |-> FALSE, err |-> err, mode |-> "failed", req |-> rq, reply |-> rp, dec |-> <<>>,
     conn |-> c]

\* The switch of DB.Changes with a slip: the header is not checked when the
\* feed is opened, so a poll feed is returned for any body.
Changes_switch_lateHeader(o, rq, rp, body) ==
    IF getOption(o, "feed") \in {Nil, GoString("normal"), GoString("longpoll")}
    THEN Opened("poll", rq, rp, body)
    ELSE IF getOption(o, "feed") = GoString("continuous") THEN Opened("continuous", rq, rp, body)
    ELSE NotOpened(ErrUnsupportedFeed, rq, rp, ChangesFeed_Close(NewChangesFeed, 0).conn)

\* The switch of DB.Changes with a slip: the default case returns its error
\* without feed.Close().
Changes_switch_leakBody(o, rq, rp, body) ==
    IF getOption(o, "feed") \in {Nil, GoString("normal"), GoString("longpoll")}
    THEN LET k(h) ==
             IF h.err # NoErr
             THEN NotOpened(h.err, rq, rp, ChangesFeed_Close(NewChangesFeed, 0).conn)
             ELSE Opened("poll", rq, rp, h.dec)
         IN k(pollParser(body))
    ELSE IF getOption(o, "feed") = GoString("continuous") THEN Opened("continuous", rq, rp, body)
    ELSE NotOpened(ErrUnsupportedFeed, rq, rp, 0)

\* DB.Changes, the switch on options["feed"] that picks the parser.
Changes_switch(o, rq, rp, body) ==
    IF getOption(o, "feed") \in {Nil, GoString("normal"), GoString("longpoll")}
    THEN LET k(h) ==
             IF h.err # NoErr
             THEN NotOpened(h.err, rq, rp, ChangesFeed_Close(NewChangesFeed, 0).conn)
             ELSE Opened("poll", rq, rp, h.dec)
         IN k(pollParser(body))
    ELSE IF getOption(o, "feed") = GoString("continuous") THEN Opened("continuous", rq, rp, body)
    ELSE NotOpened(ErrUnsupportedFeed, rq, rp, ChangesFeed_Close(NewChangesFeed, 0).conn)

\* DB.Changes, from the request on.
Changes_request(o, rq, rp, body) ==
    LET k(r) == IF ~r.ok THEN NotOpened(r.err, rq, rp, r.conn)
                ELSE Changes_switch(o, rq, rp, r.dec)
    IN k(request(rp, body))

\* DB.Changes on the database "db"; order is the order in which the runtime
\* ranges over the options map.
DB_Changes(o, order, rp, body) ==
    LET k(p) == IF p.err # NoErr THEN NotOpened(p.err, "", NoReply, 0)
                ELSE Changes_request(o, "GET " \o p.path, rp, body)
    IN k(optpath(o, order, "/db/_changes"))

\* Client.DBUpdates, from the request on.
DBUpdates_request(rq, rp, body) ==
    LET k(r) == IF ~r.ok THEN NotOpened(r.err, rq, rp, r.conn)
                ELSE Opened("dbupdates", rq, rp, r.dec)
    IN k(request(rp, body))

\* Client.DBUpdates with a slip: a "feed" option of the caller is kept.
Client_DBUpdates_keepFeed(o, order, rp, body) ==
    LET k(p) == IF p.err # NoErr THEN NotOpened(p.err, "", NoReply, 0)
                ELSE DBUpdates_request("GET " \o p.path, rp, body)
    IN k(optpath(IF "feed" \in DOMAIN o THEN clone(o)
                 ELSE setOption(clone(o), "feed", GoString("continuous")),
                 order, "/_db_updates"))

\* Client.DBUpdates
Client_DBUpdates(o, order, rp, body) ==
    LET k(p) == IF p.err # NoErr THEN NotOpened(p.err, "", NoReply, 0)
                ELSE DBUpdates_request("GET " \o p.path, rp, body)
    IN k(optpath(setOption(clone(o), "feed", GoString("continuous")), order, "/_db_updates"))

\* The options and the request of a feed that was opened in mode m.
OptionsOf(m) ==
    IF m = "continuous" THEN setOption(NoOptions, "feed", GoString("continuous")) ELSE NoOptions
RequestOf(m) ==
    IF m = "poll" THEN "GET /db/_changes?"
    ELSE IF m = "continuous" THEN "GET /db/_changes?feed=continuous"
    ELSE "GET /_db_updates?feed=continuous"

(***************************************************************************)
(* The caller.                                                             *)
(***************************************************************************)
Call(op, ret, err) == [op |-> op, ret |-> ret, err |-> err]

\* The event fields the caller reads after Next returned true.
ChangesEvent(f) ==
    [ID |-> f.ID, Deleted |-> f.Deleted, Seq |-> f.Seq, Changes |-> f.Changes, Doc |-> f.Doc]
UpdatesEvent(f) == [Event |-> f.Event, DB |-> f.DB, Seq |-> f.Seq, OK |-> f.OK]

(***************************************************************************)
(* Package couchdaemon, at rest.                                           *)
(***************************************************************************)
\* The goroutines of the program that call the API.
Goroutines == {"g1", "g2"}
\* What a call returned: the number and the string of its results, its error.
Ret(n, val, err) == [n |-> n, val |-> val, err |-> err]
NoRet == Ret(0, "", NoErr)
\* A goroutine that is in no call.
IdleCaller == [pc |-> "idle", op |-> "", phase |-> 0, calls |-> 0, got |-> <<>>, ret |-> NoRet]
\* One array written to stdout: ["get", arg...] or ["log", msg, {"level": ...}].
Query(verb, arg, level) == [verb |-> verb, arg |-> arg, level |-> level]
\* couchdaemon's request struct.
Request(query, readresp) == [query |-> query, readresp |-> readresp]
NoRequest == Request(Query("", "", ""), FALSE)
NotExited == [exitCalls |-> 0, terminated |-> FALSE, chanClosed |-> FALSE, inputcClosed |-> FALSE]

\* The package state before start: no goroutine runs, exit is nil.
NotStarted ==
    /\ exitfn = "nil"
    /\ initArg = "none"
    /\ callers = [g \in Goroutines |-> IdleCaller]
    /\ mutex = ""
    /\ writer = [pc |-> "off", req |-> NoRequest]
    /\ reader = [pc |-> "off", line |-> ""]
    /\ respchan = <<>>
    /\ stdin = [lines |-> <<>>, closed |-> FALSE]
    /\ stdout = [lines |-> <<>>, answered |-> 0]
    /\ proc = NotExited
\* The program does not use package couchdaemon.
NoDaemon == impl = "none" /\ NotStarted

\* The state after DB.Changes or Client.DBUpdates returned a feed.
Init ==
    /\ \/ mode = "poll" /\ PollShape(shape)
       \/ mode = "continuous" /\ ContShape(shape)
       \/ mode = "dbupdates" /\ UpdShape(shape)
    /\ opts = OptionsOf(mode)
    /\ req = RequestOf(mode)
    /\ reply = Reply(TRUE, 200)
    /\ dec = IF mode = "poll" THEN pollParser(Body(mode, shape)).dec ELSE Body(mode, shape)
    /\ cf = NewChangesFeed
    /\ uf = NewDBUpdatesFeed
    /\ conn = 0
    /\ last = Call("none", FALSE, NoErr)
    /\ delivered = <<>>
    /\ closeCalls = 0
    /\ NoDaemon

CallChangesNext ==
    /\ mode \in {"poll", "continuous"}
    /\ LET k(r) ==
            /\ cf' = r.f
            /\ dec' = r.dec
            /\ conn' = r.conn
            /\ last' = Call("Next", r.ret, NoErr)
            /\ delivered' = IF r.ret THEN Append(delivered, ChangesEvent(r.f)) ELSE delivered
       IN k(ChangesFeed_Next(mode, cf, dec, conn))
    /\ UNCHANGED <<mode, opts, req, reply, shape, uf, closeCalls>>
    /\ UNCHANGED daemonVars

CallChangesClose ==
    /\ mode \in {"poll", "continuous"}
    /\ closeCalls < MaxCloseCalls
    /\ \E e \in conn_Close(conn) :
        /\ cf' = ChangesFeed_Close(cf, conn).f
        /\ conn' = ChangesFeed_Close(cf, conn).conn
        /\ last' = Call("Close", FALSE, e)
    /\ closeCalls' = closeCalls + 1
    /\ UNCHANGED <<mode, opts, req, reply, shape, dec, uf, delivered>>
    /\ UNCHANGED daemonVars

CallUpdatesNext ==
    /\ mode = "dbupdates"
    /\ LET k(r) ==
            /\ uf' = r.f
            /\ dec' = r.dec
            /\ conn' = r.conn
            /\ last' = Call("Next", r.ret, NoErr)
            /\ delivered' = IF r.ret THEN Append(delivered, UpdatesEvent(r.f)) ELSE delivered
       IN k(DBUpdatesFeed_Next(uf, dec, conn))
    /\ UNCHANGED <<mode, opts, req, reply, shape, cf, closeCalls>>
    /\ UNCHANGED daemonVars

CallUpdatesClose ==
    /\ mode = "dbupdates"
    /\ closeCalls < MaxCloseCalls
    /\ \E e \in conn_Close(conn) :
        /\ uf' = DBUpdatesFeed_Close(uf, conn).f
        /\ conn' = DBUpdatesFeed_Close(uf, conn).conn
        /\ last' = Call("Close", FALSE, e)
    /\ closeCalls' = closeCalls + 1
    /\ UNCHANGED <<mode, opts, req, reply, shape, dec, cf, delivered>>
    /\ UNCHANGED daemonVars

Next == CallChangesNext \/ CallChangesClose \/ CallUpdatesNext \/ CallUpdatesClose

Spec == Init /\ [][Next]_vars

(***************************************************************************)
(* The opening calls.  In this specification the feed is not open at the   *)
(* start: the caller holds its options, and the server picks its answer    *)
(* and its body when the request arrives.                                  *)
(***************************************************************************)
\* The options the caller may pass.
FeedValues ==
    {GoString("normal"), GoString("longpoll"), GoString("continuous"), GoString("eventsource"),
     GoBool(1), Nil}
OptionChoices ==
    {o \in UNION {[K -> FeedValues \cup {GoString("a b")}] : K \in SUBSET {"feed", "include_docs", "since"}} :
        /\ "include_docs" \in DOMAIN o => o["include_docs"] = GoBool(1)
        /\ "since" \in DOMAIN o => o["since"] = GoString("a b")
        /\ "feed" \in DOMAIN o => o["feed"] \in FeedValues}

\* The orders in which the runtime may range over the keys K of a map.
RangeOrders(K) ==
    {order \in [1..Cardinality(K) -> K] :
        \A i, j \in 1..Cardinality(K) : i # j => order[i] # order[j]}

\* The answers of the transport and of the server.
Replies == {Reply(FALSE, 0), Reply(TRUE, 200), Reply(TRUE, 404), Reply(TRUE, 500)}

ErrorBody ==
    <<Delim("{"), StrTok("error"), StrTok("not_found"), StrTok("reason"), StrTok("missing"),
      Delim("}")>>
WrongHeaderBody ==
    <<Delim("{"), StrTok("total_rows"), IntTok(1), StrTok("results"), Delim("["), Delim("]"),
      Delim("}")>>
PollBody == PollHeader \o <<RowA, Delim("]"), StrTok("last_seq"), StrTok("99-x"), Delim("}")>>
\* Bodies that do not begin with '{', "results", '[': an array, a header that
\* stops early, and one whose third token is not '['.
ArrayBody == <<Delim("["), RowA, Delim("]")>>
ShortHeaderBody == <<Delim("{"), StrTok("results")>>
ObjectResultsBody == <<Delim("{"), StrTok("results"), Delim("{"), Delim("}"), Delim("}")>>

\* The bodies the server may send: an error document or nothing with a
\* status >= 400, else a body of the feed that was asked for.
ServedBodies(rp, path, o) ==
    IF ~rp.ok THEN {<<>>}
    ELSE IF rp.status >= 400 THEN {ErrorBody, <<>>}
    ELSE IF path = "/_db_updates" THEN {<<UpdA, UpdB>>, <<>>}
    ELSE IF getOption(o, "feed") = GoString("continuous") THEN {<<RowA, TermA>>, <<RowB>>}
    ELSE {PollBody, WrongHeaderBody, ArrayBody, ShortHeaderBody, ObjectResultsBody, <<>>}

NoShape == MkShape(<<>>, <<>>, <<>>, 0, "none")
\* The body the server answered the request rq with (none when no request
\* was issued), kept as it was sent.
Served(body, rq) ==
    [rows |-> <<>>, term |-> <<>>, trailer |-> <<>>, cut |-> 0, fault |-> "none",
     body |-> IF rq = "" THEN <<>> ELSE body]

OpenInit ==
    /\ mode = "unopened"
    /\ opts \in OptionChoices
    /\ req = ""
    /\ reply = NoReply
    /\ shape = NoShape
    /\ dec = <<>>
    /\ cf = NewChangesFeed
    /\ uf = NewDBUpdatesFeed
    /\ conn = 0
    /\ last = Call("none", FALSE, NoErr)
    /\ delivered = <<>>
    /\ closeCalls = 0
    /\ NoDaemon

\* feed, err := db.Changes(opts)
OpenChanges ==
    /\ mode = "unopened"
    /\ \E order \in RangeOrders(DOMAIN opts), rp \in Replies :
          \E body \in ServedBodies(rp, "/db/_changes", opts) :
              LET k(r) ==
                  /\ mode' = r.mode
                  /\ req' = r.req
                  /\ reply' = r.reply
                  /\ dec' = r.dec
                  /\ conn' = r.conn
                  /\ last' = Call("Changes", r.feed, r.err)
                  /\ shape' = Served(body, r.req)
              IN k(DB_Changes(opts, order, rp, body))
    /\ UNCHANGED <<opts, cf, uf, delivered, closeCalls>>
    /\ UNCHANGED daemonVars

\* feed, err := client.DBUpdates(opts)
OpenDBUpdates ==
    /\ mode = "unopened"
    /\ \E order \in RangeOrders(DOMAIN opts \cup {"feed"}), rp \in Replies :
          \E body \in ServedBodies(rp, "/_db_updates", opts) :
              LET k(r) ==
                  /\ mode' = r.mode
                  /\ req' = r.req
                  /\ reply' = r.reply
                  /\ dec' = r.dec
                  /\ conn' = r.conn
                  /\ last' = Call("DBUpdates", r.feed, r.err)
                  /\ shape' = Served(body, r.req)
              IN k(Client_DBUpdates(opts, order, rp, body))
    /\ UNCHANGED <<opts, cf, uf, delivered, closeCalls>>
    /\ UNCHANGED daemonVars

OpenNext ==
    \/ OpenChanges \/ OpenDBUpdates
    \/ CallChangesNext \/ CallChangesClose \/ CallUpdatesNext \/ CallUpdatesClose

OpenSpec == OpenInit /\ [][OpenNext]_vars

(***************************************************************************)
(* Vocabulary of the properties.                                           *)
(***************************************************************************)
IsChanges == mode \in {"poll", "continuous"}
FeedErr == IF IsChanges THEN ChangesFeed_Err(cf) ELSE DBUpdatesFeed_Err(uf)
Ended == IF IsChanges THEN cf.end ELSE uf.end

\* The last call was a Next that returned false.
NextFalse == last.op = "Next" /\ ~last.ret
\* The caller has only called Next so far.
OnlyNext == closeCalls = 0

\* The event the wire row stands for.
ExpectedEvent(row) ==
    [ID |-> row.id, Deleted |-> (row.deleted = "true"), Seq |-> decodeInterface(row.seq),
     Changes |-> unmarshalChanges(row.changes), Doc |-> row.doc]

\* Every event seen so far is the row at its position of the stream.
InStreamOrder ==
    /\ Len(delivered) <= Len(shape.rows)
    /\ \A i \in 1..Len(delivered) : delivered[i] = ExpectedEvent(shape.rows[i])

\* The body is the complete body of its shape.
Complete == shape.cut = Len(FullBody(mode, shape)) /\ shape.fault = "none"
WellTyped == \A i \in 1..Len(shape.trailer) : shape.trailer[i] \in WellTypedEntries

\* The complete rows that the body holds.
RowsSent ==
    IF mode = "poll"
    THEN (IF shape.cut - Len(PollHeader) < Len(shape.rows)
          THEN shape.cut - Len(PollHeader) ELSE Len(shape.rows))
    ELSE Len(shape.rows)

\* The decoder runs into the fault of the body when the caller keeps reading.
FaultInReach ==
    /\ shape.fault # "none"
    /\ mode = "poll" => shape.cut < Len(FullBody(mode, shape))

(***************************************************************************)
(* C1: a continuous _changes stream of rows r1..rn followed by a row with  *)
(* last_seq true makes Next return true exactly n times, exposing r1..rn   *)
(* in stream order; the next call returns false with Err() == nil and no   *)
(* event is delivered for the terminal row.                                *)
(***************************************************************************)
C1_ContinuousTerminated ==
    (mode = "continuous" /\ shape.term # <<>>) =>
        /\ InStreamOrder
        /\ (NextFalse /\ OnlyNext) =>
              (Len(delivered) = Len(shape.rows) /\ ChangesFeed_Err(cf) = NoErr)

C1_Witness ==
    /\ mode = "continuous" /\ shape.term # <<>> /\ Len(shape.rows) = MaxRows
    /\ NextFalse /\ OnlyNext /\ Len(delivered) = MaxRows

(***************************************************************************)
(* C2: a well-formed poll response with n rows (n >= 0) makes Next return  *)
(* true exactly n times, once per row in array order, then false once      *)
(* with Err() == nil; after that Seq holds the last_seq value and Pending   *)
(* the pending value of the trailing keys.                                 *)
(***************************************************************************)
C2_PollComplete ==
    (mode = "poll" /\ Complete /\ WellTyped) =>
        /\ InStreamOrder
        /\ (NextFalse /\ OnlyNext) =>
              /\ Len(delivered) = Len(shape.rows)
              /\ ChangesFeed_Err(cf) = NoErr
              /\ \A i \in 1..Len(shape.trailer) :
                    /\ shape.trailer[i].key = "last_seq" =>
                           cf.Seq = decodeInterface(shape.trailer[i].val[1])
                    /\ shape.trailer[i].key = "pending" =>
                           cf.Pending = shape.trailer[i].val[1].n

C2_Witness ==
    /\ mode = "poll" /\ Complete /\ WellTyped /\ NextFalse /\ OnlyNext
    /\ Len(delivered) = MaxRows
    /\ \E i, j \in 1..Len(shape.trailer) :
          shape.trailer[i].key = "last_seq" /\ shape.trailer[j].key = "pending"
    /\ cf.Pending = 1

\* C2, the empty results array: the first Next goes to the trailing keys.
C2_WitnessEmpty ==
    /\ mode = "poll" /\ Complete /\ WellTyped /\ NextFalse /\ OnlyNext
    /\ shape.rows = <<>> /\ shape.trailer # <<>> /\ cf.Seq # Nil

(***************************************************************************)
(* C3: when a continuous _changes stream reaches the end of input after    *)
(* zero or more complete rows and before any terminal row, Next returns    *)
(* false and Err() returns nil.                                            *)
(***************************************************************************)
C3_ContinuousCleanEOF ==
    (mode = "continuous" /\ shape.term = <<>> /\ shape.fault = "none" /\ NextFalse /\ OnlyNext) =>
        ChangesFeed_Err(cf) = NoErr

(***************************************************************************)
(* C4: when the _db_updates stream reaches the end of input after zero or  *)
(* more complete rows, Next returns false and Err() returns nil; any other *)
(* decode error is returned by Err().                                      *)
(***************************************************************************)
C4_UpdatesEOF ==
    (mode = "dbupdates" /\ NextFalse /\ OnlyNext) =>
        /\ Len(delivered) = Len(shape.rows)
        /\ shape.fault = "none" => DBUpdatesFeed_Err(uf) = NoErr
        /\ shape.fault = "bad" => DBUpdatesFeed_Err(uf) = SyntaxError
        /\ shape.fault = "partial" => DBUpdatesFeed_Err(uf) = ErrUnexpectedEOF

C4_Witness ==
    /\ mode = "dbupdates" /\ NextFalse /\ OnlyNext /\ shape.fault = "none"
    /\ Len(delivered) = MaxRows /\ dec = <<>>

(***************************************************************************)
(* C5: when decoding fails in mid-stream, in either feed mode, the Next    *)
(* call that hit the failure returns false, Err() returns the non-nil      *)
(* error, the feed has ended and the connection has been closed.           *)
(***************************************************************************)
C5_DecodeError ==
    FaultInReach =>
        /\ Len(delivered) <= RowsSent
        /\ (NextFalse /\ OnlyNext) =>
              (FeedErr # NoErr /\ Ended /\ conn >= 1 /\ Len(delivered) = RowsSent)

C5_Witness ==
    /\ FaultInReach /\ NextFalse /\ OnlyNext /\ mode = "continuous"
    /\ Len(delivered) >= 1 /\ cf.err = SyntaxError

(***************************************************************************)
(* C6: a feed that has ended never becomes active again: every later Next  *)
(* returns false and leaves the event fields and Err() unchanged, whatever *)
(* Next and Close calls follow.                                            *)
(***************************************************************************)
EndedStays ==
    Ended => (cf' = cf /\ uf' = uf /\ (last'.op = "Next" => ~last'.ret))

C6_EndedStays == [][EndedStays]_vars

\* A Next on a feed that was closed while rows were still to be read.
C6_Witness ==
    /\ Ended /\ NextFalse /\ closeCalls >= 1 /\ More(dec) /\ conn = 1

(***************************************************************************)
(* C7: over any sequence of Next and Close calls on one feed the Close of  *)
(* the underlying byte stream is invoked exactly once.                     *)
(***************************************************************************)
C7_ClosedExactlyOnce == conn <= 1 /\ (Ended => conn = 1)

(***************************************************************************)
(* C8: a second Close on a feed, or a Close after Next returned false,     *)
(* does not return an error.                                               *)
(***************************************************************************)
C8_SecondCloseNoError == (last.op = "Close" /\ conn >= 2) => last.err = NoErr

(***************************************************************************)
(* C9: whenever Next returns false, the connection of the feed has been    *)
(* closed at least once.                                                   *)
(***************************************************************************)
C9_FalseMeansClosed == NextFalse => conn >= 1

C9_Witness == NextFalse /\ OnlyNext /\ conn = 1 /\ mode = "continuous" /\ shape.term # <<>>

(***************************************************************************)
(* C10: Deleted reflects only the current row: after a row with deleted    *)
(* true, a row without a deleted key is exposed with Deleted == false, in  *)
(* poll mode and in continuous mode.                                       *)
(***************************************************************************)
C10_DeletedResets ==
    IsChanges =>
        \A i \in 2..Len(delivered) :
            (/\ i <= Len(shape.rows)
             /\ shape.rows[i - 1].deleted = "true"
             /\ shape.rows[i].deleted = "absent") => ~delivered[i].Deleted

C10_Witness ==
    /\ mode = "continuous" /\ Len(delivered) = 2 /\ last.op = "Next" /\ last.ret
    /\ shape.rows[1].deleted = "true" /\ shape.rows[2].deleted = "absent"
    /\ delivered[1].Deleted /\ ~cf.Deleted

C10_WitnessPoll ==
    /\ mode = "poll" /\ Len(delivered) = 2 /\ last.op = "Next" /\ last.ret
    /\ shape.rows[1].deleted = "true" /\ shape.rows[2].deleted = "absent"
    /\ delivered[1].Deleted /\ ~cf.Deleted

(***************************************************************************)
(* Bodies whose sequence tokens run over every JSON type.  Seq is declared *)
(* interface{} (ChangesFeed.Seq, changesRow.Seq, DBUpdatesFeed.Seq), so    *)
(* what the feed exposes is whatever encoding/json makes of the token.     *)
(***************************************************************************)
\* A seq key of a row whose value is an array or an object.
ArrayTok == [t |-> "array", s |-> "", n |-> 0]
ObjectTok == [t |-> "object", s |-> "", n |-> 0]

SeqToks == {StrTok("5-s"), IntTok(5), FloatTok(5), BoolTok(TRUE), NullTok, ArrayTok, ObjectTok}
SeqRows == {WireRow("doc", "absent", tok, <<>>, "", "absent") : tok \in SeqToks}
SeqTerminals == {WireRow("", "absent", tok, <<>>, "", "true") : tok \in SeqToks}
SeqUpdates == {WireUpdate("db", "updated", tok, "absent") : tok \in SeqToks}

\* The last_seq key of a poll response, its value spelled out in tokens.
SeqEntries ==
    {Entry("last_seq", <<tok>>) : tok \in {StrTok("9-s"), IntTok(9), FloatTok(9), BoolTok(TRUE), NullTok}}
    \cup {Entry("last_seq", <<Delim("["), IntTok(9), Delim("]")>>),
          Entry("last_seq", <<Delim("{"), StrTok("x"), IntTok(9), Delim("}")>>)}

\* Complete bodies without faults, of every feed.
SeqPollShape(sh) ==
    \E rows \in SeqsUpTo(SeqRows, MaxRows), tr \in {<<>>} \cup {<<e>> : e \in SeqEntries} :
        sh = MkShape(rows, <<>>, tr, Len(PollHeader) + Len(rows) + 2 + Len(Flatten(tr)), "none")
SeqContShape(sh) ==
    \E rows \in SeqsUpTo(SeqRows, MaxRows), tm \in SeqTerminals :
        sh = MkShape(rows, <<tm>>, <<>>, Len(rows) + 1, "none")
SeqUpdShape(sh) ==
    \E rows \in SeqsUpTo(SeqUpdates, MaxRows) : sh = MkShape(rows, <<>>, <<>>, Len(rows), "none")

\* The state after DB.Changes or Client.DBUpdates returned a feed on such a body.
SeqInit ==
    /\ \/ mode = "poll" /\ SeqPollShape(shape)
       \/ mode = "continuous" /\ SeqContShape(shape)
       \/ mode = "dbupdates" /\ SeqUpdShape(shape)
    /\ opts = OptionsOf(mode)
    /\ req = RequestOf(mode)
    /\ reply = Reply(TRUE, 200)
    /\ dec = IF mode = "poll" THEN pollParser(Body(mode, shape)).dec ELSE Body(mode, shape)
    /\ cf = NewChangesFeed
    /\ uf = NewDBUpdatesFeed
    /\ conn = 0
    /\ last = Call("none", FALSE, NoErr)
    /\ delivered = <<>>
    /\ closeCalls = 0
    /\ NoDaemon

SeqSpec == SeqInit /\ [][Next]_vars

\* The JSON type of a token, and the JSON type a Go value would be written as.
\* A float64 is the only Go type encoding/json decodes a number into here, so
\* no value has the kind "int".
WireKind(tok) == IF tok.t = "delim" THEN (IF tok.s = "[" THEN "array" ELSE "object") ELSE tok.t
GoKind(v) ==
    CASE v.k = "string" -> "str"
      [] v.k = "float64" -> "float"
      [] v.k = "bool" -> "bool"
      [] v.k = "nil" -> "null"
      [] v.k = "[]interface{}" -> "array"
      [] v.k = "map[string]interface{}" -> "object"

\* The Seq the caller reads now.
FeedSeq == IF IsChanges THEN cf.Seq ELSE uf.Seq
\* The feed has read its whole body and the caller has only called Next.
ReadToEnd == NextFalse /\ OnlyNext /\ Len(delivered) = Len(shape.rows)

(***************************************************************************)
(* C11: a sequence token (row seq, poll last_seq, _db_updates seq) is      *)
(* exposed in Seq with the kind it had on the wire: a string stays a       *)
(* string, an integer an integer, a floating-point number floating-point.  *)
(***************************************************************************)
C11_SeqKindPreserved ==
    /\ \A i \in 1..Len(delivered) :
          (i <= Len(shape.rows) /\ shape.rows[i].seq.t \in {"str", "int", "float"}) =>
              GoKind(delivered[i].Seq) = WireKind(shape.rows[i].seq)
    /\ (mode = "poll" /\ ReadToEnd /\ shape.trailer # <<>>
        /\ shape.trailer[1].val[1].t \in {"str", "int", "float"}) =>
              GoKind(cf.Seq) = WireKind(shape.trailer[1].val[1])

(***************************************************************************)
(* C12: a row whose seq, or a poll response whose last_seq, is of a type   *)
(* other than number or string (array, object, boolean, null) is a decode  *)
(* error: it is not delivered as an event, Next returns false and Err()    *)
(* returns a non-nil error.                                                *)
(***************************************************************************)
C12_BadSeqIsError ==
    /\ \A i \in 1..Len(delivered) :
          i <= Len(shape.rows) => shape.rows[i].seq.t \in {"str", "int", "float"}
    /\ (mode = "poll" /\ ReadToEnd /\ shape.trailer # <<>>
        /\ shape.trailer[1].val[1].t \notin {"str", "int", "float"}) =>
              ChangesFeed_Err(cf) # NoErr

(***************************************************************************)
(* C13: in a poll response every key after the results array other than    *)
(* last_seq and pending is skipped without error whatever its value is     *)
(* (scalar, object, array, nested), and last_seq and pending before or     *)
(* after such keys are still decoded into Seq and Pending.                 *)
(***************************************************************************)
IsUnknownKey(e) == e.key \notin {"last_seq", "pending"}

C13_UnknownKeysSkipped ==
    (/\ mode = "poll" /\ Complete /\ WellTyped /\ ReadToEnd
     /\ \E i \in 1..Len(shape.trailer) : IsUnknownKey(shape.trailer[i])) =>
        /\ ChangesFeed_Err(cf) = NoErr
        /\ dec = <<Delim("}")>>
        /\ \A i \in 1..Len(shape.trailer) :
              /\ shape.trailer[i].key = "last_seq" =>
                     ChangesFeed_Err(cf) = NoErr /\ cf.Seq = decodeInterface(shape.trailer[i].val[1])
              /\ shape.trailer[i].key = "pending" =>
                     ChangesFeed_Err(cf) = NoErr /\ cf.Pending = shape.trailer[i].val[1].n

\* A nested object is skipped and the last_seq after it is decoded.
C13_Witness ==
    /\ mode = "poll" /\ Complete /\ ReadToEnd /\ Len(shape.trailer) = 2
    /\ shape.trailer[1] = Entry("foobar", Nested) /\ shape.trailer[2].key = "last_seq"
    /\ cf.Seq = GoString("99-x") /\ dec = <<Delim("}")>>

\* A scalar is skipped after pending was decoded.
C13_WitnessScalar ==
    /\ mode = "poll" /\ Complete /\ ReadToEnd /\ Len(shape.trailer) = 2
    /\ shape.trailer[1].key = "pending" /\ shape.trailer[2] = Entry("update_seq", <<IntTok(7)>>)
    /\ cf.Pending = 1 /\ dec = <<Delim("}")>>

(***************************************************************************)
(* C14: in continuous mode, when the terminal row (last_seq true) carries  *)
(* a seq, that seq is the value of Seq after the Next call that returned   *)
(* false, replacing the seq of the last delivered event.                   *)
(***************************************************************************)
C14_TerminalSeq ==
    (/\ mode = "continuous" /\ shape.term # <<>> /\ ReadToEnd
     /\ shape.term[1].seq # Absent) =>
        cf.Seq = decodeInterface(shape.term[1].seq)

C14_Witness ==
    /\ mode = "continuous" /\ shape.term = <<TermA>> /\ ReadToEnd
    /\ Len(delivered) >= 1 /\ delivered[Len(delivered)].Seq # cf.Seq
    /\ cf.Seq = GoString("99-z")

(***************************************************************************)
(* C15: whenever ChangesFeed.Next has returned false because the stream    *)
(* ended, ID is the empty string and Deleted is false, in poll mode and in *)
(* continuous mode alike: the last event's ID is not left visible.         *)
(***************************************************************************)
\* The body ends as a stream may end: a complete poll response, or a
\* continuous stream that stops after a terminal row or at the end of input
\* between two rows.
StreamEnds ==
    IF mode = "poll" THEN Complete /\ WellTyped ELSE mode = "continuous" /\ shape.fault = "none"

C15_EmptyAtEnd == (StreamEnds /\ ReadToEnd) => (cf.ID = "" /\ ~cf.Deleted)

(***************************************************************************)
(* C16: if Close is called on a feed that still has undelivered events,    *)
(* the remaining events are abandoned: every subsequent Next returns false *)
(* without reading from the stream, and Err() keeps the value it had       *)
(* before Close.                                                           *)
(***************************************************************************)
\* A step of the caller: a Close leaves Err() and the stream alone, and a
\* Next after a Close returns false, reads nothing and leaves Err() alone.
Abandons ==
    /\ closeCalls' = closeCalls + 1 => (FeedErr' = FeedErr /\ dec' = dec)
    /\ (closeCalls >= 1 /\ closeCalls' = closeCalls) =>
          /\ last'.op = "Next" /\ ~last'.ret
          /\ dec' = dec /\ delivered' = delivered
          /\ FeedErr' = FeedErr

C16_CloseAbandons == [][Abandons]_vars

\* A Next on a _db_updates feed that was closed with rows still unread.
C16_Witness ==
    /\ mode = "dbupdates" /\ closeCalls = 1 /\ NextFalse
    /\ Len(delivered) < Len(shape.rows) /\ Len(dec) >= 1 /\ dec[1] \in UpdateRows
    /\ DBUpdatesFeed_Err(uf) = NoErr

(***************************************************************************)
(* C17: ChangesRevs returns exactly the rev strings of the current row's   *)
(* changes list, with the same length and in the same order; it returns an *)
(* empty list when the current row has no changes or the feed is at its    *)
(* end.                                                                    *)
(***************************************************************************)
\* After a Next that returned true: the revs of the row just delivered.
RevsOfCurrentRow ==
    (IsChanges /\ last.op = "Next" /\ last.ret /\ Len(delivered) <= Len(shape.rows)) =>
        ChangesRevs(cf) = shape.rows[Len(delivered)].changes

\* After the Next that returned false at the end of the stream: no revs.
NoRevsAtEnd == (IsChanges /\ StreamEnds /\ ReadToEnd) => ChangesRevs(cf) = <<>>

C17_ChangesRevs == RevsOfCurrentRow /\ NoRevsAtEnd

(***************************************************************************)
(* C18: if the GET request cannot be issued or the server answers with a   *)
(* status >= 400, DB.Changes and Client.DBUpdates return a nil feed and a  *)
(* non-nil error; a transport error is never delivered later through       *)
(* Next/Err of a returned feed.                                            *)
(***************************************************************************)
\* The opening call has sent its request and the request has failed.
TransportFailed == req # "" /\ (~reply.ok \/ reply.status >= 400)
TransportErrors == {ErrTransport, ErrCouch, ErrDecodeCouch}
FeedReturned == mode \in {"poll", "continuous", "dbupdates"}

C18_TransportError ==
    /\ TransportFailed =>
          /\ mode = "failed" /\ last.op \in {"Changes", "DBUpdates"}
          /\ ~last.ret /\ last.err \in TransportErrors
          /\ delivered = <<>>
    /\ FeedReturned => (reply.ok /\ reply.status < 400 /\ FeedErr \notin TransportErrors)

\* A 404 answered to DB.Changes.
C18_Witness ==
    /\ TransportFailed /\ reply = Reply(TRUE, 404) /\ last = Call("Changes", FALSE, ErrCouch)
    /\ conn = 1

\* The transport fails under Client.DBUpdates.
C18_WitnessTransport ==
    /\ TransportFailed /\ ~reply.ok /\ last = Call("DBUpdates", FALSE, ErrTransport) /\ conn = 0

(***************************************************************************)
(* C19: Client.DBUpdates always requests the feed with feed=continuous,    *)
(* whatever value (or none) the caller's options give for "feed".          *)
(***************************************************************************)
\* The requests for a continuous _db_updates feed with the other options in use.
ContinuousUpdatesRequests ==
    {"GET /_db_updates?feed=continuous" \o rest :
        rest \in {"", "&include_docs=true", "&since=a+b", "&include_docs=true&since=a+b"}}

\* Client.DBUpdates has been called.
DBUpdatesCalled == mode = "dbupdates" \/ (mode = "failed" /\ last.op = "DBUpdates")

C19_AlwaysContinuous == DBUpdatesCalled => req \in ContinuousUpdatesRequests

\* The caller asked for another feed mode.
C19_Witness ==
    /\ DBUpdatesCalled /\ DOMAIN opts = {"feed", "include_docs", "since"}
    /\ opts["feed"] = GoString("longpoll")
    /\ req = "GET /_db_updates?feed=continuous&include_docs=true&since=a+b"

\* The caller gave no feed option, and one whose value is nil.
C19_WitnessNone == DBUpdatesCalled /\ opts = NoOptions /\ req = "GET /_db_updates?feed=continuous"
C19_WitnessNil ==
    /\ DBUpdatesCalled /\ DOMAIN opts = {"feed"} /\ opts["feed"] = Nil
    /\ req = "GET /_db_updates?feed=continuous"

(***************************************************************************)
(* C20: each DBUpdatesFeed.Next call on an active feed resets Event, DB,   *)
(* Seq and OK to their zero values before decoding, so a field absent from *)
(* a row never shows the previous row's value, and after the Next call     *)
(* that returns false at the end of the feed Event == "", DB == "",        *)
(* Seq == nil and OK == false.                                             *)
(***************************************************************************)
\* The event a _db_updates row stands for: zero values for the keys it lacks.
ExpectedUpdate(row) ==
    [Event |-> row.type, DB |-> row.db_name,
     Seq |-> IF row.seq = Absent THEN Nil ELSE decodeInterface(row.seq),
     OK |-> (row.ok = "true")]

C20_UpdatesReset ==
    mode = "dbupdates" =>
        /\ \A i \in 1..Len(delivered) :
              i <= Len(shape.rows) => delivered[i] = ExpectedUpdate(shape.rows[i])
        /\ (NextFalse /\ OnlyNext) => UpdatesEvent(uf) = UpdatesEvent(NewDBUpdatesFeed)

\* A row without seq after a row with one, then the end of the feed.
C20_Witness ==
    /\ mode = "dbupdates" /\ shape.rows = <<UpdA, UpdB>> /\ shape.fault = "none"
    /\ NextFalse /\ OnlyNext /\ Len(delivered) = 2
    /\ delivered[1].Seq = GoString("1-u") /\ delivered[2].Seq = Nil
    /\ uf.Event = "" /\ uf.DB = "" /\ uf.Seq = Nil /\ ~uf.OK

\* A row without ok after a row with ok true.
C20_WitnessOK ==
    /\ mode = "dbupdates" /\ shape.rows = <<UpdB, UpdA>> /\ Len(delivered) = 2
    /\ delivered[1].OK /\ ~delivered[2].OK /\ ~uf.OK


(***************************************************************************)
(* The query string of the opening requests.                               *)
(***************************************************************************)
\* key=value of one option of the map o, "" when the key is not set.
FeedPair(o) ==
    IF "feed" \notin DOMAIN o THEN ""
    ELSE IF o["feed"].k = "bool" THEN "feed=true" ELSE "feed=" \o o["feed"].s
DocsPair(o) == IF "include_docs" \in DOMAIN o THEN "include_docs=true" ELSE ""
SincePair(o) == IF "since" \in DOMAIN o THEN "since=a+b" ELSE ""
Amp(a, b) == IF a = "" THEN b ELSE IF b = "" THEN a ELSE a \o "&" \o b
\* The pairs in ascending key order: feed < include_docs < since.
AscendingQuery(o) == Amp(Amp(FeedPair(o), DocsPair(o)), SincePair(o))

\* A request was issued by the opening call.
Issued == mode # "unopened" /\ req # ""

\* C21: the query string of every issued request lists the option keys in
\* ascending order joined by '&', whatever the order in which the runtime
\* ranged over the options map: the same map always gives the same URL.
C21_SortedQuery ==
    Issued =>
        IF last.op = "DBUpdates" \/ mode = "dbupdates"
        THEN req = "GET /_db_updates?"
                   \o AscendingQuery(setOption(opts, "feed", GoString("continuous")))
        ELSE req = "GET /db/_changes?" \o AscendingQuery(opts)
\* A request with three options was issued (six range orders lead here).
C21_Witness ==
    /\ Issued
    /\ DOMAIN opts = {"feed", "include_docs", "since"}
    /\ req = "GET /db/_changes?feed=continuous&include_docs=true&since=a+b"
\* The request of the repository's test: include_docs and feed=continuous.
C21_WitnessTest ==
    /\ Issued
    /\ req = "GET /db/_changes?feed=continuous&include_docs=true"
    /\ mode = "continuous"


(***************************************************************************)
(* Failures of DB.Changes after the request was answered.                  *)
(***************************************************************************)
\* DB.Changes was called and the server answered its request with success.
ChangesAnswered ==
    /\ Issued
    /\ last.op = "Changes" \/ IsChanges
    /\ reply.ok /\ reply.status < 400
\* The feed option asks for poll mode: absent, "normal" or "longpoll".
PollAsked == getOption(opts, "feed") \in {Nil, GoString("normal"), GoString("longpoll")}
\* The body begins with '{', "results", '['.
HeaderOK(body) ==
    /\ Len(body) >= 3
    /\ body[1] = Delim("{") /\ body[2] = StrTok("results") /\ body[3] = Delim("[")
\* DB.Changes returned a nil feed and an error, and the body is closed.
ChangesRefused ==
    /\ mode = "failed"
    /\ last.op = "Changes" /\ ~last.ret /\ last.err # NoErr
    /\ conn = 1

\* C28: in poll mode a body that does not begin with '{', "results", '['
\* makes DB.Changes itself return a nil feed and a non-nil error, with the
\* response body closed: there is no feed on which Next could report it.
C28_BadHeaderAtOpen ==
    (ChangesAnswered /\ PollAsked /\ ~HeaderOK(shape.body)) => ChangesRefused
\* A wrong first key was met, and the opening call returned the error.
C28_Witness ==
    /\ ChangesAnswered /\ PollAsked
    /\ shape.body = WrongHeaderBody
    /\ last = Call("Changes", FALSE, ErrUnexpectedToken)
    /\ conn = 1
\* The body stopped inside the header.
C28_WitnessShort ==
    /\ ChangesAnswered /\ PollAsked
    /\ shape.body = ShortHeaderBody
    /\ last = Call("Changes", FALSE, EOF)
    /\ conn = 1

\* The feed option has a value DB.Changes does not know.
UnsupportedFeedAsked ==
    getOption(opts, "feed") \notin
        {Nil, GoString("normal"), GoString("longpoll"), GoString("continuous")}

\* C29: with a feed option other than absent, "normal", "longpoll" or
\* "continuous", DB.Changes returns a nil feed and the unsupported-value
\* error, and closes the body of the response it already received.
C29_UnsupportedFeed ==
    (ChangesAnswered /\ UnsupportedFeedAsked) =>
        /\ ChangesRefused
        /\ last.err = ErrUnsupportedFeed
\* feed=eventsource was requested and answered, then refused.
C29_Witness ==
    /\ ChangesAnswered
    /\ getOption(opts, "feed") = GoString("eventsource")
    /\ req = "GET /db/_changes?feed=eventsource"
    /\ last = Call("Changes", FALSE, ErrUnsupportedFeed)
    /\ conn = 1
\* A feed value that is not a string.
C29_WitnessBool ==
    /\ ChangesAnswered
    /\ getOption(opts, "feed") = GoBool(1)
    /\ last = Call("Changes", FALSE, ErrUnsupportedFeed)
    /\ conn = 1


(***************************************************************************)
(* Next and Err together.                                                  *)
(***************************************************************************)
\* Right after a Next that returned true Err() is nil, and a feed with an
\* error has ended.
NoErrWhileTrue ==
    /\ (last.op = "Next" /\ last.ret) => FeedErr = NoErr
    /\ FeedErr # NoErr => (Ended /\ last.op \in {"Next", "Close"})
\* The error of a feed turns non-nil only in a call of Next that returns false.
ErrOnlyByNextFalse ==
    (FeedErr = NoErr /\ FeedErr' # NoErr) => (last'.op = "Next" /\ ~last'.ret)

\* C27: for both feed types and any sequence of calls, whenever Next has
\* returned true Err() is nil; a non-nil Err() is observable only after a
\* call of Next has returned false.
C27_TrueMeansNoErr == []NoErrWhileTrue /\ [][ErrOnlyByNextFalse]_vars
\* Next returned true on a feed whose body holds a fault further on, and
\* Err() is nil at that point.
C27_Witness ==
    /\ last.op = "Next" /\ last.ret
    /\ shape.fault = "bad"
    /\ Len(delivered) = Len(shape.rows) /\ Len(delivered) > 0
    /\ FeedErr = NoErr
\* Next returned false and left an error, on a _db_updates feed.
C27_WitnessErr ==
    /\ mode = "dbupdates"
    /\ NextFalse /\ FeedErr # NoErr
    /\ Len(delivered) > 0

(***************************************************************************)
(* Failures among the trailing keys of a poll feed.                        *)
(***************************************************************************)
\* How many tokens of the trailing keys were sent (negative: the closing
\* ']' of the results was not sent either).
TrailerSent == shape.cut - (Len(PollHeader) + Len(shape.rows) + 1)
\* The tokens that precede the i-th trailing key.
EntryStart(i) == Len(Flatten(SubSeq(shape.trailer, 1, i - 1)))
\* The i-th trailing key was sent and its value is of the wrong type.
IllTypedSent(i) == shape.trailer[i] \in IllTypedEntries /\ TrailerSent > EntryStart(i)
\* The body stops after the i-th trailing key and before the end of its value.
CutInside(i) == EntryStart(i) < TrailerSent /\ TrailerSent < EntryStart(i + 1)
\* Decoding fails after the results array was closed.
TrailerFails ==
    /\ mode = "poll"
    /\ TrailerSent >= 0
    /\ \/ \E i \in 1..Len(shape.trailer) : IllTypedSent(i) \/ CutInside(i)
       \/ shape.fault = "bad" /\ shape.cut < Len(FullBody(mode, shape))

\* C30: in poll mode, when decoding fails among the trailing keys (after
\* the results array was closed and the feed was marked as ended), the final
\* Next returns false and Err() is non-nil: the failure is never reported as
\* a clean end.
C30_TrailerErrorKept ==
    (TrailerFails /\ ReadToEnd) => (cf.end /\ ChangesFeed_Err(cf) # NoErr)
\* "pending" holds a string: the final Next left the pending error.
C30_Witness ==
    /\ TrailerFails /\ ReadToEnd
    /\ shape.fault = "none"
    /\ \E i \in 1..Len(shape.trailer) :
           shape.trailer[i] \in IllTypedEntries /\ TrailerSent >= EntryStart(i + 1)
    /\ cf.end
    /\ ChangesFeed_Err(cf) = ErrPending
\* The value of an unknown key is cut: the final Next left the skip error.
C30_WitnessCut ==
    /\ TrailerFails /\ ReadToEnd
    /\ shape.fault = "none"
    /\ \E i \in 1..Len(shape.trailer) : shape.trailer[i].key = "foobar" /\ CutInside(i)
    /\ cf.end
    /\ ChangesFeed_Err(cf) = ErrSkip


(***************************************************************************)
(* skipValue on its own: one JSON value, whole or cut short, is the unread *)
(* input, and skipValue is applied to it once.                             *)
(***************************************************************************)
Scalars == {<<IntTok(1)>>, <<StrTok("y")>>, <<NullTok>>}
\* The JSON values nested at most depth deep, as their tokens: scalars,
\* empty and one- or two-element arrays, empty and one-key objects.
RECURSIVE JsonValues(_)
JsonValues(depth) ==
    IF depth = 0 THEN Scalars
    ELSE LET k(inner) ==
             Scalars
             \cup {<<Delim("["), Delim("]")>>, <<Delim("{"), Delim("}")>>}
             \cup {<<Delim("[")>> \o v \o <<Delim("]")>> : v \in inner}
             \cup {<<Delim("[")>> \o v \o w \o <<Delim("]")>> : v \in inner, w \in Scalars}
             \cup {<<Delim("{"), StrTok("x")>> \o v \o <<Delim("}")>> : v \in inner}
         IN k(JsonValues(depth - 1))
\* What follows the value in the enclosing object: the next key and its
\* value, or the closing '}'.
Followers == {<<StrTok("last_seq"), StrTok("99-x"), Delim("}")>>, <<Delim("}")>>}
\* The input of one run: the value and what follows it; or, cut short, the
\* first cut tokens of the value (maybe with the piece of a token) and then
\* the end of input.
SkipInput(value, rest, cut, fault) ==
    [value |-> value, rest |-> rest, cut |-> cut, fault |-> fault]
SkipBody(sh) ==
    IF sh.cut = Len(sh.value) THEN sh.value \o sh.rest
    ELSE SubSeq(sh.value, 1, sh.cut) \o FaultItems(sh.fault)

SkipInit ==
    /\ mode = "skipValue"
    /\ opts = NoOptions
    /\ req = ""
    /\ reply = NoReply
    /\ \E value \in JsonValues(MaxDepth) :
           \/ \E rest \in Followers : shape = SkipInput(value, rest, Len(value), "none")
           \/ \E cut \in 0..(Len(value) - 1), fault \in {"none", "partial"} :
                  shape = SkipInput(value, <<>>, cut, fault)
    /\ dec = SkipBody(shape)
    /\ cf = NewChangesFeed
    /\ uf = NewDBUpdatesFeed
    /\ conn = 0
    /\ last = Call("none", FALSE, NoErr)
    /\ delivered = <<>>
    /\ closeCalls = 0
    /\ NoDaemon

\* err := skipValue(dec)
CallSkipValue ==
    /\ mode = "skipValue"
    /\ last.op = "none"
    /\ LET k(r) ==
           /\ dec' = r.dec
           /\ last' = Call("skipValue", r.err = NoErr, r.err)
       IN k(skipValue(dec))
    /\ UNCHANGED <<mode, opts, req, reply, shape, cf, uf, conn, delivered, closeCalls>>
    /\ UNCHANGED daemonVars

SkipNext == CallSkipValue

SkipSpec == SkipInit /\ [][SkipNext]_vars

\* skipValue has run.
Skipped == mode = "skipValue" /\ last.op = "skipValue"
\* The value was sent whole.
WholeValue == shape.cut = Len(shape.value)

\* C26: skipValue consumes exactly the tokens of one JSON value (one token
\* for a scalar, everything up to the matching closing delimiter for an
\* object or array), so that what is read next is what follows the value;
\* on a value cut short by the end of input it returns an error.
C26_SkipsOneValue ==
    Skipped =>
        IF WholeValue THEN last.err = NoErr /\ dec = shape.rest
        ELSE last.err # NoErr
\* A value nested two deep was skipped and the next token is the next key.
C26_Witness ==
    /\ Skipped /\ WholeValue
    /\ shape.value = <<Delim("{"), StrTok("x"), Delim("["), IntTok(1), StrTok("y"), Delim("]"),
                       Delim("}")>>
    /\ last.err = NoErr
    /\ Token(dec).tok = StrTok("last_seq")
\* A scalar was skipped: one token.
C26_WitnessScalar ==
    /\ Skipped /\ WholeValue
    /\ shape.value = <<NullTok>>
    /\ last.err = NoErr
    /\ Len(dec) = Len(shape.rest)
\* A nested value was cut inside its inner array: skipValue returned io.EOF.
C26_WitnessCut ==
    /\ Skipped
    /\ shape.value = <<Delim("{"), StrTok("x"), Delim("["), IntTok(1), StrTok("y"), Delim("]"),
                       Delim("}")>>
    /\ shape.cut = 4 /\ shape.fault = "none"
    /\ last.err = EOF

(***************************************************************************)
(* Package couchdaemon.  Two sources of the package are modelled: the one  *)
(* that passes requests over the channels reqchan and respchan to the      *)
(* goroutines writeloop and readloop (impl "chan"), and the one that       *)
(* serialises requests with a mutex and reads lines in the goroutine       *)
(* inputloop (impl "mutex").  CouchDB is at the other end of stdin and     *)
(* stdout: it answers every "get" query with one line, in the order of the *)
(* queries, answers no "log" query, and may close stdin at any time.       *)
(***************************************************************************)
ErrNotInitialized == "couchdaemon: not initialized"
ErrUnmarshal == "unexpected end of JSON input"

\* make(chan string, 1)
RespchanCap == 1

\* The calls the goroutines make, all together.
MaxCalls == 2
\* The calls goroutine record c has begun.
Begun(c) == c.calls + (IF c.pc = "idle" THEN 0 ELSE 1)

\* The configuration key each goroutine asks for, and the message it logs.
KeyOf(g) == IF g = "g1" THEN "a" ELSE "b"
LogMsg == "msg"
\* The line CouchDB answers the query ["get", arg] with.
Resp(arg) == "v:" \o arg

\* The API of each source.
Ops(version) ==
    IF version = "chan" THEN {"Config", "Write"}
    ELSE {"ConfigSection", "ConfigVal", "ServerURL", "Write", "Err", "Info", "Debug"}
\* The calls that read a response.
ReadsResp(op) == op \in {"Config", "ConfigSection", "ConfigVal", "ServerURL"}

\* The query a call writes: Config and ConfigSection ask for the key,
\* ConfigVal for an item of it, ServerURL for httpd/port and then for
\* httpd/bind_address; the LogWriter methods add their level.
QueryOf(g, op, phase) ==
    CASE op \in {"Config", "ConfigSection"} -> Query("get", KeyOf(g), "")
      [] op = "ConfigVal" -> Query("get", KeyOf(g) \o "/k", "")
      [] op = "ServerURL" ->
             Query("get", IF phase = 1 THEN "httpd/port" ELSE "httpd/bind_address", "")
      [] op = "Write" -> Query("log", LogMsg, "")
      [] op = "Err" -> Query("log", LogMsg, "error")
      [] op = "Info" -> Query("log", LogMsg, "info")
      [] op = "Debug" -> Query("log", LogMsg, "debug")

\* Init of couchdaemon.go: os.Exit(0) for a nil argument, else close(exit).
Init_chan(arg) == IF arg = "nil" THEN "os.Exit" ELSE "close(exit)"
\* Init of part_007: both branches hand os.Exit(0) to start.
Init_mutex(arg) == IF arg = "nil" THEN "os.Exit" ELSE "os.Exit"

\* exit(): what a call of the exit function does to the process.
callExit(ef, p) ==
    CASE ef = "os.Exit" -> [p EXCEPT !.exitCalls = @ + 1, !.terminated = TRUE]
      [] ef = "close(exit)" -> [p EXCEPT !.exitCalls = @ + 1, !.chanClosed = TRUE]
      [] OTHER -> [p EXCEPT !.exitCalls = @ + 1]

\* The call of goroutine record c returns ret.
Return(c, ret) == [c EXCEPT !.pc = "idle", !.calls = @ + 1, !.ret = ret]

\* What a call returns when it completes without an error: the value read
\* for a configuration call, the URL for ServerURL, len(msg) for Write.
Result(op, got) ==
    CASE op = "ServerURL" -> Ret(0, "http://" \o got[2] \o ":" \o got[1] \o "/", NoErr)
      [] ReadsResp(op) -> Ret(0, got[1], NoErr)
      [] op = "Write" -> Ret(Len(LogMsg), "", NoErr)
      [] OTHER -> NoRet

DaemonInit ==
    /\ mode = "couchdaemon"
    /\ opts = NoOptions
    /\ req = ""
    /\ reply = NoReply
    /\ shape = NoShape
    /\ dec = <<>>
    /\ cf = NewChangesFeed
    /\ uf = NewDBUpdatesFeed
    /\ conn = 0
    /\ last = Call("none", FALSE, NoErr)
    /\ delivered = <<>>
    /\ closeCalls = 0
    /\ impl \in {"chan", "mutex"}
    /\ NotStarted

\* Init(exit), or start(stdin, stdout, f) as the tests call it: the exit
\* function is kept and the goroutines are started.  start of part_007
\* holds the mutex while it does so.
CallInit ==
    /\ initArg = "none"
    /\ impl = "mutex" => mutex = ""
    /\ \E arg \in {"nil", "chan", "func"} :
          /\ initArg' = arg
          /\ exitfn' = IF arg = "func" THEN "test"
                       ELSE IF impl = "chan" THEN Init_chan(arg) ELSE Init_mutex(arg)
    /\ writer' = IF impl = "chan" THEN [writer EXCEPT !.pc = "range"] ELSE writer
    /\ reader' = [reader EXCEPT !.pc = "read"]
    /\ UNCHANGED <<impl, callers, mutex, respchan, stdin, stdout, proc>>
    /\ UNCHANGED feedVars

\* A goroutine calls one function of the API.
ApiCall(g) ==
    /\ ~proc.terminated
    /\ callers[g].pc = "idle"
    /\ Begun(callers["g1"]) + Begun(callers["g2"]) < MaxCalls
    /\ \E op \in Ops(impl) :
          callers' = [callers EXCEPT
                         ![g] = [@ EXCEPT !.pc = IF impl = "chan" THEN "send" ELSE "lock",
                                          !.op = op, !.phase = 1, !.got = <<>>, !.ret = NoRet]]
    /\ UNCHANGED <<impl, exitfn, initArg, mutex, writer, reader, respchan, stdin, stdout, proc>>
    /\ UNCHANGED feedVars

(***************************************************************************)
(* impl "chan": Config, logger.Write, writeloop, readloop.                 *)
(***************************************************************************)
\* reqchan <- req in Config or Write meets "for req := range reqchan" in
\* writeloop: reqchan has no buffer.
ReqchanPass(g) ==
    /\ ~proc.terminated
    /\ impl = "chan"
    /\ callers[g].pc = "send"
    /\ writer.pc = "range"
    /\ writer' = [pc |-> "encode",
                  req |-> Request(QueryOf(g, callers[g].op, 1), ReadsResp(callers[g].op))]
    /\ callers' = [callers EXCEPT ![g].pc = "recv"]
    /\ UNCHANGED <<impl, exitfn, initArg, mutex, reader, respchan, stdin, stdout, proc>>
    /\ UNCHANGED feedVars

\* writeloop: out.Encode(req.query)
WriteloopEncode ==
    /\ ~proc.terminated
    /\ writer.pc = "encode"
    /\ stdout' = [stdout EXCEPT !.lines = Append(@, writer.req.query)]
    /\ writer' = [writer EXCEPT !.pc = IF writer.req.readresp THEN "range" ELSE "ack"]
    /\ UNCHANGED <<impl, exitfn, initArg, callers, mutex, reader, respchan, stdin, proc>>
    /\ UNCHANGED feedVars

\* writeloop: respchan <- "" unblocks the caller of a request that reads no
\* response.
WriteloopAck ==
    /\ ~proc.terminated
    /\ writer.pc = "ack"
    /\ Len(respchan) < RespchanCap
    /\ respchan' = Append(respchan, "")
    /\ writer' = [writer EXCEPT !.pc = "range"]
    /\ UNCHANGED <<impl, exitfn, initArg, callers, mutex, reader, stdin, stdout, proc>>
    /\ UNCHANGED feedVars

\* <-respchan in Config (the value is returned) and in Write (it is
\* dropped).
RespchanRecv(g) ==
    /\ ~proc.terminated
    /\ impl = "chan"
    /\ callers[g].pc = "recv"
    /\ respchan # <<>>
    /\ respchan' = Tail(respchan)
    /\ callers' = [callers EXCEPT
                      ![g] = Return(@, Result(@.op, <<Head(respchan)>>))]
    /\ UNCHANGED <<impl, exitfn, initArg, mutex, writer, reader, stdin, stdout, proc>>
    /\ UNCHANGED feedVars

\* readloop: dec.Decode(&resp) returns a line, or io.EOF on a closed stdin
\* that was read to its end; it blocks on an open stdin with no line.
ReadloopDecode ==
    /\ ~proc.terminated
    /\ impl = "chan"
    /\ reader.pc = "read"
    /\ \/ /\ stdin.lines # <<>>
          /\ reader' = [pc |-> "send", line |-> Head(stdin.lines)]
          /\ stdin' = [stdin EXCEPT !.lines = Tail(@)]
       \/ /\ stdin.lines = <<>> /\ stdin.closed
          /\ reader' = [pc |-> "eof", line |-> ""]
          /\ UNCHANGED stdin
    /\ UNCHANGED <<impl, exitfn, initArg, callers, mutex, writer, respchan, stdout, proc>>
    /\ UNCHANGED feedVars

\* readloop: respchan <- resp
ReadloopSend ==
    /\ ~proc.terminated
    /\ reader.pc = "send"
    /\ Len(respchan) < RespchanCap
    /\ respchan' = Append(respchan, reader.line)
    /\ reader' = [pc |-> "read", line |-> ""]
    /\ UNCHANGED <<impl, exitfn, initArg, callers, mutex, writer, stdin, stdout, proc>>
    /\ UNCHANGED feedVars

\* readloop with a slip: respchan has no buffer, so the "" sent on the error
\* of Decode needs a call that is waiting to receive it.
ReadloopEOF_unbuffered ==
    /\ ~proc.terminated
    /\ reader.pc = "eof"
    /\ respchan = <<>>
    /\ \E g \in Goroutines :
           /\ callers[g].pc = "recv"
           /\ callers' = [callers EXCEPT ![g] = Return(@, Result(@.op, <<"">>))]
    /\ reader' = [pc |-> "exit", line |-> ""]
    /\ UNCHANGED <<impl, exitfn, initArg, mutex, writer, respchan, stdin, stdout, proc>>
    /\ UNCHANGED feedVars

\* readloop, on the error of Decode: respchan <- ""
ReadloopEOF ==
    /\ ~proc.terminated
    /\ reader.pc = "eof"
    /\ Len(respchan) < RespchanCap
    /\ respchan' = Append(respchan, "")
    /\ reader' = [pc |-> "exit", line |-> ""]
    /\ UNCHANGED <<impl, exitfn, initArg, callers, mutex, writer, stdin, stdout, proc>>
    /\ UNCHANGED feedVars

\* readloop: exit(); return
ReadloopExit ==
    /\ ~proc.terminated
    /\ impl = "chan"
    /\ reader.pc = "exit"
    /\ proc' = callExit(exitfn, proc)
    /\ reader' = [pc |-> "done", line |-> ""]
    /\ UNCHANGED <<impl, exitfn, initArg, callers, mutex, writer, respchan, stdin, stdout>>
    /\ UNCHANGED feedVars

(***************************************************************************)
(* impl "mutex": request, inputloop.                                       *)
(***************************************************************************)
\* request with a slip: it does not look at exit before it writes.
request_locked_noInitCheck(ef, out, query, readresp) ==
    [err |-> NoErr, lines |-> Append(out, query), wait |-> readresp]

\* request, with the mutex held: ErrNotInitialized when exit is nil, else
\* the query is written to stdout and, for a call with a result, the
\* response is awaited.
request_locked(ef, out, query, readresp) ==
    IF ef = "nil" THEN [err |-> ErrNotInitialized, lines |-> out, wait |-> FALSE]
    ELSE [err |-> NoErr, lines |-> Append(out, query), wait |-> readresp]

\* request: mutex.Lock()
MutexLock(g) ==
    /\ ~proc.terminated
    /\ callers[g].pc = "lock"
    /\ mutex = ""
    /\ mutex' = g
    /\ callers' = [callers EXCEPT ![g].pc = "locked"]
    /\ UNCHANGED <<impl, exitfn, initArg, writer, reader, respchan, stdin, stdout, proc>>
    /\ UNCHANGED feedVars

\* request, from the check of exit to the write; it returns (and the
\* deferred Unlock runs) unless a response is to be read.
RequestWrite(g) ==
    /\ ~proc.terminated
    /\ callers[g].pc = "locked"
    /\ LET k(r) ==
           /\ stdout' = [stdout EXCEPT !.lines = r.lines]
           /\ IF r.err # NoErr
              THEN /\ callers' = [callers EXCEPT ![g] = Return(@, Ret(0, "", r.err))]
                   /\ mutex' = ""
              ELSE IF r.wait
              THEN /\ callers' = [callers EXCEPT ![g].pc = "recv"]
                   /\ UNCHANGED mutex
              ELSE /\ callers' = [callers EXCEPT ![g] = Return(@, Result(@.op, @.got))]
                   /\ mutex' = ""
       IN k(request_locked(exitfn, stdout.lines,
                           QueryOf(g, callers[g].op, callers[g].phase),
                           ReadsResp(callers[g].op)))
    /\ UNCHANGED <<impl, exitfn, initArg, writer, reader, respchan, stdin, proc>>
    /\ UNCHANGED feedVars

\* The goroutine record after request returned with the line it read:
\* ServerURL goes on to its second ConfigVal, every other call returns.
afterResponse(c, line) ==
    IF c.op = "ServerURL" /\ c.phase = 1
    THEN [c EXCEPT !.pc = "lock", !.phase = 2, !.got = Append(@, line)]
    ELSE Return(c, Result(c.op, Append(c.got, line)))

\* "inputc <- line" in inputloop meets "<-inputc" in request: inputc has no
\* buffer.  request then returns and unlocks the mutex.
InputcPass(g) ==
    /\ ~proc.terminated
    /\ impl = "mutex"
    /\ callers[g].pc = "recv"
    /\ reader.pc = "send"
    /\ callers' = [callers EXCEPT ![g] = afterResponse(@, reader.line)]
    /\ reader' = [pc |-> "read", line |-> ""]
    /\ mutex' = ""
    /\ UNCHANGED <<impl, exitfn, initArg, writer, respchan, stdin, stdout, proc>>
    /\ UNCHANGED feedVars

\* "<-inputc" on the closed channel yields nil, which json.Unmarshal
\* refuses: request returns the error.
InputcClosedRecv(g) ==
    /\ ~proc.terminated
    /\ impl = "mutex"
    /\ callers[g].pc = "recv"
    /\ proc.inputcClosed
    /\ callers' = [callers EXCEPT ![g] = Return(@, Ret(0, "", ErrUnmarshal))]
    /\ mutex' = ""
    /\ UNCHANGED <<impl, exitfn, initArg, writer, reader, respchan, stdin, stdout, proc>>
    /\ UNCHANGED feedVars

\* inputloop: bufin.ReadBytes('\n') returns a line, or an error on a closed
\* stdin that was read to its end.
InputloopRead ==
    /\ ~proc.terminated
    /\ impl = "mutex"
    /\ reader.pc = "read"
    /\ \/ /\ stdin.lines # <<>>
          /\ reader' = [pc |-> "send", line |-> Head(stdin.lines)]
          /\ stdin' = [stdin EXCEPT !.lines = Tail(@)]
       \/ /\ stdin.lines = <<>> /\ stdin.closed
          /\ reader' = [pc |-> "exit", line |-> ""]
          /\ UNCHANGED stdin
    /\ UNCHANGED <<impl, exitfn, initArg, callers, mutex, writer, respchan, stdout, proc>>
    /\ UNCHANGED feedVars

\* inputloop: exit()
InputloopExit ==
    /\ ~proc.terminated
    /\ impl = "mutex"
    /\ reader.pc = "exit"
    /\ proc' = callExit(exitfn, proc)
    /\ reader' = [pc |-> "close", line |-> ""]
    /\ UNCHANGED <<impl, exitfn, initArg, callers, mutex, writer, respchan, stdin, stdout>>
    /\ UNCHANGED feedVars

\* inputloop: close(inputc)
InputloopClose ==
    /\ ~proc.terminated
    /\ reader.pc = "close"
    /\ proc' = [proc EXCEPT !.inputcClosed = TRUE]
    /\ reader' = [pc |-> "done", line |-> ""]
    /\ UNCHANGED <<impl, exitfn, initArg, callers, mutex, writer, respchan, stdin, stdout>>
    /\ UNCHANGED feedVars

(***************************************************************************)
(* CouchDB.                                                                *)
(***************************************************************************)
\* CouchDB reads the next query from the daemon's stdout and answers a
\* "get" with one line on the daemon's stdin.
CouchRespond ==
    /\ stdout.answered < Len(stdout.lines)
    /\ ~stdin.closed
    /\ stdout' = [stdout EXCEPT !.answered = @ + 1]
    /\ LET k(q) ==
           stdin' = IF q.verb = "get" THEN [stdin EXCEPT !.lines = Append(@, Resp(q.arg))]
                    ELSE stdin
       IN k(stdout.lines[stdout.answered + 1])
    /\ UNCHANGED <<impl, exitfn, initArg, callers, mutex, writer, reader, respchan, proc>>
    /\ UNCHANGED feedVars

\* CouchDB signals that it is exiting: it closes the daemon's stdin.
CouchClose ==
    /\ ~stdin.closed
    /\ stdin' = [stdin EXCEPT !.closed = TRUE]
    /\ UNCHANGED <<impl, exitfn, initArg, callers, mutex, writer, reader, respchan, stdout, proc>>
    /\ UNCHANGED feedVars

\* The steps of one calling goroutine once it is in a call.
CallerStep(g) ==
    \/ ReqchanPass(g) \/ RespchanRecv(g)
    \/ MutexLock(g) \/ RequestWrite(g) \/ InputcPass(g) \/ InputcClosedRecv(g)
\* The steps of the goroutines that start started.
WriterStep == WriteloopEncode \/ WriteloopAck
ReaderStep ==
    \/ ReadloopDecode \/ ReadloopSend \/ ReadloopEOF \/ ReadloopExit
    \/ InputloopRead \/ InputloopExit \/ InputloopClose

DaemonNext ==
    \/ CallInit
    \/ \E g \in Goroutines : ApiCall(g) \/ CallerStep(g)
    \/ WriterStep
    \/ ReaderStep
    \/ CouchRespond \/ CouchClose

DaemonSpec == DaemonInit /\ [][DaemonNext]_vars

\* The Go scheduler runs every goroutine that can take a step.  Nothing
\* obliges the program to call the API, nor CouchDB to answer or to exit.
DaemonFairness ==
    /\ WF_vars(WriterStep)
    /\ WF_vars(ReaderStep)
    /\ \A g \in Goroutines : WF_vars(CallerStep(g))

DaemonFairSpec == DaemonInit /\ [][DaemonNext]_vars /\ DaemonFairness



(***************************************************************************)
(* Properties of package couchdaemon.                                      *)
(***************************************************************************)
\* start has run: exit is set.
Started == exitfn # "nil"
\* Goroutine g has completed a call of op.
Returned(g) == callers[g].pc = "idle" /\ callers[g].calls > 0

\* C22: when Init is called with a non-nil channel, then once CouchDB has
\* closed stdin and the exit function has run, that channel is closed and
\* the process was not terminated by os.Exit; os.Exit(0) is used only when
\* the argument is nil.
C22_ChannelNotExit ==
    /\ proc.terminated => initArg = "nil"
    /\ (initArg = "chan" /\ proc.exitCalls > 0) => proc.chanClosed

\* C23: until start has been called, ConfigSection, ConfigVal, ServerURL
\* and the LogWriter methods Write, Err, Info and Debug return
\* ErrNotInitialized (Write with 0 bytes written), nothing is written to
\* stdout, and no call waits for a response.
C23_NotInitialized ==
    (impl = "mutex" /\ ~Started) =>
        /\ stdout.lines = <<>>
        /\ \A g \in Goroutines :
               /\ callers[g].pc # "recv"
               /\ Returned(g) => callers[g].ret = Ret(0, "", ErrNotInitialized)
\* ServerURL and Write have both returned before start.
C23_Witness ==
    /\ impl = "mutex" /\ ~Started
    /\ Returned("g1") /\ callers["g1"].op = "ServerURL"
    /\ Returned("g2") /\ callers["g2"].op = "Write"
    /\ callers["g1"].ret.err = ErrNotInitialized
    /\ callers["g2"].ret.err = ErrNotInitialized
\* ConfigSection and Debug have both returned before start.
C23_WitnessSection ==
    /\ impl = "mutex" /\ ~Started
    /\ Returned("g1") /\ callers["g1"].op = "ConfigSection"
    /\ Returned("g2") /\ callers["g2"].op = "Debug"
    /\ callers["g1"].ret.err = ErrNotInitialized
    /\ callers["g2"].ret.err = ErrNotInitialized

\* C24: under every interleaving of concurrent Log().Write and Config
\* calls, a Config call that returns while CouchDB is still connected
\* returns the response CouchDB sent for that call's own query: not the
\* empty acknowledgement of a log write, not another call's response.
C24_OwnResponse ==
    (impl = "chan" /\ ~stdin.closed) =>
        \A g \in Goroutines :
            (Returned(g) /\ callers[g].op = "Config") =>
                callers[g].ret.val = Resp(KeyOf(g))

\* The exit function is never called twice.
AtMostOneExit == proc.exitCalls <= 1
\* C25: after start, once stdin has reached its end the exit function is
\* eventually called, and it is called exactly once, whether or not a
\* request is waiting for a response at that moment.
C25_ExitOnce ==
    /\ (Started /\ stdin.closed) ~> (proc.exitCalls = 1)
    /\ []AtMostOneExit
\* The exit function was called while a request was waiting for its
\* response.
C25_Witness ==
    /\ stdin.closed
    /\ proc.exitCalls = 1
    /\ reader.pc = "close"
    /\ \E g \in Goroutines : callers[g].pc = "recv"
\* The exit function was called in the channel source after a request that
\* was waiting had been given the empty response.
C25_WitnessChan ==
    /\ impl = "chan"
    /\ stdin.closed
    /\ proc.exitCalls = 1
    /\ \E g \in Goroutines :
           Returned(g) /\ callers[g].op = "Config" /\ callers[g].ret.val = ""
                       /\ stdout.answered = 0
\* The exit function was called with no call ever made.
C25_WitnessIdle ==
    /\ stdin.closed
    /\ proc.exitCalls = 1
    /\ \A g \in Goroutines : callers[g] = IdleCaller

====
